---- MODULE Spec2Model ----
(***************************************************************************)
(* The session orchestrator of the My-Tutor client (AuthProvider in        *)
(* src/src/contexts/AuthContext.tsx) and the degraded-mode gateway         *)
(* (createMockClient in src/unnamed/part_002), as a state machine.         *)
(*                                                                         *)
(* One step of the model is one run-to-completion slice of the event loop: *)
(* the synchronous part of a handler up to its first await, or the         *)
(* continuation that runs when an awaited backend call settles.            *)
(***************************************************************************)
EXTENDS Integers, Sequences, FiniteSets, TLC

VARIABLES
  st,        \* the React state of AuthProvider (the ten useState cells)
  ls,        \* localStorage.getItem('isNewUser') === 'true'
  mounted,   \* the effect's `mounted` flag
  sub,       \* the session-change subscription: its state and the calls made for it
  rows,      \* the backend's user_profiles row of each user
  startup,   \* getInitialSession: its position and its timeout timer
  tasks,     \* load functions in flight (each awaiting one backend call)
  act,       \* the action of the exposed surface in flight, if any
  last,      \* the event the last step handled (history)
  lastNotif, \* payload of the most recently applied notification (history)
  everSet,   \* required fields that ever held a non-empty value in profile (history)
  updated,   \* an updateProfile call has returned (history)
  gw,        \* the backend client in use and the last operation invoked on it
  pg,        \* the backend's user_progress_stats table and the last statement run on it
  nNotif,    \* notifications delivered so far
  nActs      \* calls of the exposed surface so far

vars == <<st, ls, mounted, sub, rows, startup, tasks, act, last, lastNotif, everSet, updated,
          gw, pg, nNotif, nActs>>

----------------------------------------------------------------------------
(* Bounds of the model. *)

MaxEvents == 2     \* session-change notifications plus calls of the exposed surface
MaxActs == 1       \* calls of the exposed surface
MaxInFlight == 3   \* backend requests in flight
MaxGatewayCalls == 3   \* operations invoked on the mock client
MaxStatements == 4     \* statements run on the user_progress_stats table

----------------------------------------------------------------------------
(* Values. A nullable value is None or Some(x). *)

None == <<>>
Some(x) == <<x>>
Val(o) == o[1]

ABSENT == "undefined"

Users == {"u1", "u2"}
(* The user of the session the browser holds, whom getCurrentUser finds. *)
StoredUsers == {"u1"}
Tokens == {"t1"}
Sessions == [user : Users, token : Tokens]

(* Thrown values: name, whether it is an instance of Error, and the message *)
(* as a sequence of fragments; String.includes is membership of a fragment. *)
Includes(message, fragment) == \E i \in DOMAIN message : message[i] = fragment

ConnErr == [name |-> "SupabaseConnectionError", isError |-> TRUE,
            message |-> <<"Cannot Connect to Supabase", "Possible causes">>]
TimeoutErr == [name |-> "SupabaseTimeoutError", isError |-> TRUE,
               message |-> <<"Supabase Request Timeout">>]
FetchErr == [name |-> "TypeError", isError |-> TRUE, message |-> <<"TypeError:", "Failed to fetch">>]
NetErr == [name |-> "Error", isError |-> TRUE, message |-> <<"NetworkError", "when attempting to fetch resource">>]
ConnTimeoutErr == [name |-> "Error", isError |-> TRUE, message |-> <<"Connection timeout">>]
NoFetchErr == [name |-> "ReferenceError", isError |-> TRUE, message |-> <<"fetch is not defined">>]
FaultErr == [name |-> "AuthApiError", isError |-> TRUE, message |-> <<"Database error saving new user">>]
UnexpectedErr == [name |-> "AuthApiError", isError |-> TRUE, message |-> <<"unexpected_failure">>]
InvalidErr == [name |-> "AuthApiError", isError |-> TRUE, message |-> <<"Invalid login credentials">>]
PlainErr == [name |-> "", isError |-> FALSE, message |-> <<"Supabase connection unavailable.", "Please check your project status.">>]
AbortErr == [name |-> "AbortError", isError |-> TRUE, message |-> <<"The operation was aborted">>]

AllErrors == {ConnErr, TimeoutErr, FetchErr, NetErr, ConnTimeoutErr, NoFetchErr,
              FaultErr, UnexpectedErr, InvalidErr, PlainErr, AbortErr}
(* What a load's backend call rejects with in the runs explored, and what   *)
(* the backend call of an action rejects with.                             *)
Errors == {ConnErr, InvalidErr}
ActionErrors == {ConnErr, FetchErr, FaultErr, InvalidErr, PlainErr}

(* The fixed texts handleSupabaseError and getInitialSession put in error. *)
CannotConnectText == <<"Cannot Connect to Supabase", "Refresh this page">>
ProjectIssueText == <<"Supabase Project Issue", "Try again">>
ConnectionTimeoutText == <<"Connection Timeout", "Unable to connect to Supabase.">>

(* The backend's content when the client starts. User u1 has just signed   *)
(* up: the row the sign-up trigger created (names from the metadata, grade *)
(* empty) and no subject group. User u2 has a completed profile and a      *)
(* subject group.                                                          *)
InitialRows ==
  [u \in Users |->
     IF u = "u1"
     THEN [id |-> u, first_name |-> "Ann", last_name |-> "Lee", grade |-> "", board |-> ABSENT]
     ELSE [id |-> u, first_name |-> "Raj", last_name |-> "Rao", grade |-> "9", board |-> "CBSE"]]

StatsOf(u) == Some([user_id |-> u])

(* A new row of user_progress_stats: every counter takes its default of 0. *)
ProgressRow(u) == [user_id |-> u, total_study_time_minutes |-> 0, completed_lessons |-> 0]

(* The progress table when the client starts: the trigger on user_profiles  *)
(* has created one row for each user that has a profile row.                *)
InitialDb ==
  [profiles |-> Users,
   stats |-> <<ProgressRow("u1"), ProgressRow("u2")>>,
   last |-> [op |-> "none", user |-> "u1", existed |-> FALSE, ok |-> TRUE],
   n |-> 0]
SubjectsOf(u) == <<[user_id |-> u, subject_name |-> "Math"]>>
GroupOf(u) == IF u = "u1" THEN None ELSE Some([subjects |-> <<"Math">>])

(* The updates arguments of updateProfile explored (Partial<UserProfile>). *)
UpdateInputs ==
  { [first_name |-> ABSENT, last_name |-> ABSENT, grade |-> "10", board |-> "CBSE"],
    [first_name |-> "", last_name |-> "Ray", grade |-> ABSENT, board |-> ABSENT] }

RequiredFields == {"first_name", "last_name", "grade"}

----------------------------------------------------------------------------
(* The degraded-mode gateway: the object createMockClient returns. An       *)
(* operation is the chain of methods called on the client, as a sequence.   *)

MockError == [message |-> <<"Supabase connection unavailable.", "Please check your project status.">>,
              code |-> "SUPABASE_UNAVAILABLE"]

(* Promise.resolve(value), a plain return value, and a thrown TypeError. *)
Resolves(data, error) == [how |-> "resolves", data |-> data, error |-> error]
Returns(data) == [how |-> "returns", data |-> data, error |-> None]
Throws(name) == [how |-> "throws", data |-> name, error |-> None]

MockUnavailableOps ==
  { <<"auth", "signUp">>, <<"auth", "signInWithPassword">>,
    <<"from", "select", "eq", "single">>, <<"from", "select", "eq", "maybeSingle">>,
    <<"from", "insert">>, <<"from", "update", "eq", "select", "single">>,
    <<"from", "upsert", "select", "single">>, <<"storage", "from", "upload">> }

MockEmptyListOps ==
  { <<"from", "select", "eq", "limit">>, <<"from", "select", "eq", "order", "limit">>,
    <<"from", "select", "limit">>, <<"from", "select", "order", "limit">> }

(* createMockClient with insert resolving as an empty success. *)
MockClient_InsertSucceeds(op) ==
  CASE op = <<"auth", "getUser">> -> Resolves("user: null", None)
    [] op = <<"auth", "getSession">> -> Resolves("session: null", None)
    [] op = <<"auth", "signOut">> -> Resolves("absent", None)
    [] op = <<"auth", "onAuthStateChange">> -> Returns("subscription")
    [] op \in MockEmptyListOps -> Resolves("[]", None)
    [] op = <<"storage", "from", "remove">> -> Resolves("absent", None)
    [] op = <<"storage", "from", "getPublicUrl">> -> Returns("publicUrl: ''")
    [] op = <<"from", "insert">> -> Resolves("null", None)
    [] op \in {<<"auth", "signUp">>, <<"auth", "signInWithPassword">>} ->
         Resolves("user: null, session: null", Some(MockError))
    [] op \in MockUnavailableOps -> Resolves("null", Some(MockError))
    [] OTHER -> Throws("TypeError")

MockClient(op) ==
  CASE op = <<"auth", "getUser">> -> Resolves("user: null", None)
    [] op = <<"auth", "getSession">> -> Resolves("session: null", None)
    [] op = <<"auth", "signUp">> -> Resolves("user: null, session: null", Some(MockError))
    [] op = <<"auth", "signInWithPassword">> -> Resolves("user: null, session: null", Some(MockError))
    [] op = <<"auth", "signOut">> -> Resolves("absent", None)
    [] op = <<"auth", "onAuthStateChange">> -> Returns("subscription")
    [] op \in MockEmptyListOps -> Resolves("[]", None)
    [] op = <<"storage", "from", "remove">> -> Resolves("absent", None)
    [] op = <<"storage", "from", "getPublicUrl">> -> Returns("publicUrl: ''")
    [] op \in MockUnavailableOps -> Resolves("null", Some(MockError))
    [] OTHER -> Throws("TypeError")

(* The operations explored: every chain the mock defines, and two chains   *)
(* of the real client's surface that it does not define.                   *)
MockDefinedOps ==
  { <<"auth", "getUser">>, <<"auth", "getSession">>, <<"auth", "signOut">>,
    <<"auth", "onAuthStateChange">>, <<"storage", "from", "remove">>,
    <<"storage", "from", "getPublicUrl">> } \cup MockUnavailableOps \cup MockEmptyListOps

ClientOps == MockDefinedOps \cup {<<"from", "delete">>, <<"from", "insert", "select">>}

(* The connection probe of the client in use: its position, what its two   *)
(* checks settled with, and what it resolved to.                           *)
ProbeIdle == [pc |-> "idle", auth |-> None, db |-> None, result |-> ""]

(* The environment the backend module is loaded in: VITE_SUPABASE_URL and   *)
(* VITE_SUPABASE_ANON_KEY as sequences of fragments (empty when unset),     *)
(* import.meta.env.DEV, and whether createClient throws for these values.   *)
Configs ==
  [url : {<<>>, <<"https://", "your-project", ".supabase.co">>,
          <<"https://", "abcd", ".supabase.co">>,
          <<"https://", "your-anon-key", ".supabase.co">>},
   key : {<<>>, <<"your-anon-key">>, <<"eyJhbGciOi">>, <<"your-project">>},
   dev : BOOLEAN, createClientThrows : BOOLEAN]
ValidConfig == [url |-> <<"https://", "abcd", ".supabase.co">>, key |-> <<"eyJhbGciOi">>,
                dev |-> TRUE, createClientThrows |-> FALSE]

NoSubscription == [state |-> "none", subscribed |-> 0, unsubscribed |-> 0]

Client(kind) ==
  [client |-> kind, op |-> <<>>, result |-> None, timers |-> 0, emitted |-> 0, calls |-> 0,
   subs |-> <<>>, probe |-> ProbeIdle, config |-> ValidConfig, isUsingMockClient |-> (kind = "mock")]

----------------------------------------------------------------------------
(* The state after construction: the useState initial values. *)

InitState ==
  [ user |-> None, profile |-> None, progressStats |-> None, subjectProgress |-> <<>>,
    session |-> None, loading |-> TRUE, error |-> None, isNewUser |-> FALSE,
    hasSubjectGroup |-> FALSE, connectionStatus |-> "checking" ]

Init ==
  /\ st = InitState
  /\ ls \in BOOLEAN
  /\ rows = InitialRows
  /\ pg = InitialDb
  /\ mounted = FALSE
  /\ sub = NoSubscription
  /\ startup = [pc |-> "idle", timer |-> "unset"]
  /\ tasks = {}
  /\ act = None
  /\ last = [op |-> "init", arg |-> None, settled |-> None]
  /\ lastNotif = [applied |-> FALSE, session |-> None]
  /\ everSet = {}
  /\ updated = FALSE
  /\ gw = Client("real")
  /\ nNotif = 0
  /\ nActs = 0

----------------------------------------------------------------------------
(* Helpers shared by the handlers. *)

(* State updates applied whether or not the component is still mounted. *)
Render_AfterTeardown(s) == s

(* setState is a no-op once the component is unmounted. *)
Render(s) == IF mounted THEN s ELSE st

Truthy(x) == x \notin {ABSENT, ""}

Established(s) ==
  IF s.profile = None THEN {} ELSE {f \in RequiredFields : Truthy(Val(s.profile)[f])}

Task(kind, uid, src) ==
  [kind |-> kind, uid |-> uid, src |-> src,
   pc |-> IF kind = "progress" THEN "stats" ELSE kind]

(* handleSupabaseError with a backend fault stored as an ordinary error,    *)
(* connectionStatus untouched.                                              *)
HandleSupabaseError_FaultNotEscalated(s, e, context) ==
  IF e.name \in {"SupabaseConnectionError", "SupabaseTimeoutError"}
  THEN [s EXCEPT !.connectionStatus = "disconnected", !.error = Some(e.message)]
  ELSE IF \/ Includes(e.message, "Failed to fetch")
          \/ Includes(e.message, "NetworkError")
          \/ Includes(e.message, "Connection timeout")
          \/ Includes(e.message, "fetch is not defined")
  THEN [s EXCEPT !.connectionStatus = "disconnected", !.error = Some(CannotConnectText)]
  ELSE [s EXCEPT !.error = Some(IF e.isError THEN e.message ELSE <<context, "failed">>)]

(* handleSupabaseError(error, context): the state it leaves. *)
HandleSupabaseError(s, e, context) ==
  IF e.name \in {"SupabaseConnectionError", "SupabaseTimeoutError"}
  THEN [s EXCEPT !.connectionStatus = "disconnected", !.error = Some(e.message)]
  ELSE IF \/ Includes(e.message, "Failed to fetch")
          \/ Includes(e.message, "NetworkError")
          \/ Includes(e.message, "Connection timeout")
          \/ Includes(e.message, "fetch is not defined")
  THEN [s EXCEPT !.connectionStatus = "disconnected", !.error = Some(CannotConnectText)]
  ELSE IF \/ Includes(e.message, "Database error saving new user")
          \/ Includes(e.message, "unexpected_failure")
  THEN [s EXCEPT !.connectionStatus = "disconnected", !.error = Some(ProjectIssueText)]
  ELSE [s EXCEPT !.error = Some(IF e.isError THEN e.message ELSE <<context, "failed">>)]

(* The two classes handleSupabaseError reports as disconnected: the typed   *)
(* connection and timeout errors and the messages of a failed fetch         *)
(* (NetworkUnavailable), and the two backend messages (BackendFault).       *)
NetworkUnavailable(e) ==
  \/ e.name \in {"SupabaseConnectionError", "SupabaseTimeoutError"}
  \/ \E fragment \in {"Failed to fetch", "NetworkError", "Connection timeout",
                       "fetch is not defined"} : Includes(e.message, fragment)

BackendFault(e) ==
  /\ ~NetworkUnavailable(e)
  /\ \E fragment \in {"Database error saving new user", "unexpected_failure"} :
       Includes(e.message, fragment)

(* The synchronous part of loadUserProfile: setError(null), then the read. *)
IssueProfileLoad(s) == [s EXCEPT !.error = None]

(* The three loads issued together, none awaited (the fan-out). *)
FanOut(uid, src) == {Task("profile", uid, src), Task("progress", uid, src), Task("group", uid, src)}

HasGroup(g) == g # None /\ Len(Val(g).subjects) > 0

(* Loads awaited by an action carry this src; a fan-out load carries 0     *)
(* (startup) or the number of the notification that issued it.            *)
ActSrc == -1

(* What follows the load kind inside the action that awaits it: the next   *)
(* load of retryConnection, retryProfileLoad and updateProfile, or "done". *)
NextLoad_GroupSkipped(actKind, loadKind) ==
  IF loadKind = "profile" THEN "progress" ELSE "done"

NextLoad(actKind, loadKind) ==
  CASE loadKind = "profile" -> "progress"
    [] loadKind = "progress" ->
         IF actKind \in {"refreshProgress", "recordStudySession"} THEN "done" ELSE "group"
    [] OTHER -> "done"

CallOf(loadKind) ==
  CASE loadKind = "profile" -> "getUserProfile"
    [] loadKind = "progress" -> "getUserProgress"
    [] OTHER -> "getUserSubjectGroup"

Settled(a, outcome) ==
  Some([kind |-> a.kind, outcome |-> outcome, calls |-> a.calls, uid |-> a.uid, isNew |-> a.isNew,
        conn |-> a.conn, flag |-> a.flag, before |-> a.before])

(* A load t has returned: a fan-out load just ends; a load an action awaits *)
(* resumes the action, which issues its next load or returns.              *)
LoadReturnsWith(t, op, arg) ==
  IF t.src # ActSrc
  THEN /\ tasks' = tasks \ {t}
       /\ act' = act
       /\ last' = [op |-> op, arg |-> arg, settled |-> None]
       /\ updated' = updated
  ELSE LET a == Val(act)
           nxt == NextLoad(a.kind, t.kind)
       IN IF nxt = "done"
          THEN /\ tasks' = tasks \ {t}
               /\ act' = None
               /\ last' = [op |-> op, arg |-> arg, settled |-> Settled(a, "returned")]
               /\ updated' = (updated \/ a.kind = "updateProfile")
          ELSE /\ tasks' = (tasks \ {t}) \cup {Task(nxt, t.uid, ActSrc)}
               /\ act' = Some([a EXCEPT !.pc = nxt, !.calls = Append(@, CallOf(nxt))])
               /\ last' = [op |-> op, arg |-> arg, settled |-> None]
               /\ updated' = updated

LoadReturns(t, op) == LoadReturnsWith(t, op, None)

History == everSet' = everSet \cup Established(st')

----------------------------------------------------------------------------
(* Mount: the effect runs getInitialSession up to its await and subscribes. *)

(* The subscription of one AuthProvider: no listener registered, "active"   *)
(* (registered, handle kept), "noHandle" (registered, no handle returned)   *)
(* or "unsubscribed"; and how often onAuthStateChange and unsubscribe were  *)
(* called: the variable sub.                                                *)

MountState == [st EXCEPT !.error = None, !.connectionStatus = "checking"]

Mount ==
  /\ startup.pc = "idle"
  /\ mounted' = TRUE
  /\ startup' = [pc |-> "awaitUser", timer |-> "armed"]
  /\ st' = MountState
  /\ sub' = [sub EXCEPT !.state = "active", !.subscribed = @ + 1]
  /\ last' = [op |-> "mount", arg |-> None, settled |-> None]
  /\ UNCHANGED <<gw, pg, ls, rows, tasks, act, lastNotif, everSet, updated, nNotif, nActs>>

(* Mount when AuthService.onAuthStateChange returns no data.subscription:  *)
(* the handler is registered, the effect keeps no handle.                  *)
MountWithoutHandle ==
  /\ startup.pc = "idle"
  /\ mounted' = TRUE
  /\ startup' = [pc |-> "awaitUser", timer |-> "armed"]
  /\ st' = MountState
  /\ sub' = [sub EXCEPT !.state = "noHandle", !.subscribed = @ + 1]
  /\ last' = [op |-> "mount", arg |-> None, settled |-> None]
  /\ UNCHANGED <<gw, pg, ls, rows, tasks, act, lastNotif, everSet, updated, nNotif, nActs>>

(* AuthService.onAuthStateChange throws while subscribing. *)
MountListenerThrows ==
  /\ startup.pc = "idle"
  /\ \E e \in Errors :
       /\ st' = [HandleSupabaseError(MountState, e, "Auth state listener setup") EXCEPT !.loading = FALSE]
       /\ last' = [op |-> "mountListenerThrew", arg |-> e, settled |-> None]
  /\ mounted' = TRUE
  /\ startup' = [pc |-> "awaitUser", timer |-> "armed"]
  /\ sub' = sub
  /\ UNCHANGED <<gw, pg, ls, rows, tasks, act, lastNotif, everSet, updated, nNotif, nActs>>

(* The effect's cleanup without the call of subscription.unsubscribe(). *)
Unmount_KeepsSubscription ==
  /\ mounted
  /\ mounted' = FALSE
  /\ sub' = sub
  /\ last' = [op |-> "unmount", arg |-> None, settled |-> None]
  /\ UNCHANGED <<gw, pg, st, ls, rows, startup, tasks, act, lastNotif, everSet, updated, nNotif, nActs>>

(* The effect's cleanup. *)
Unmount ==
  /\ mounted
  /\ mounted' = FALSE
  /\ sub' = IF sub.state = "active"
            THEN [sub EXCEPT !.state = "unsubscribed", !.unsubscribed = @ + 1]
            ELSE sub
  /\ last' = [op |-> "unmount", arg |-> None, settled |-> None]
  /\ UNCHANGED <<gw, pg, st, ls, rows, startup, tasks, act, lastNotif, everSet, updated, nNotif, nActs>>

(* The 8 s timer fires: controller.abort(). The controller's signal is     *)
(* handed to no request, so nothing else changes.                          *)
TimeoutFires ==
  /\ startup.pc = "awaitUser"
  /\ startup.timer = "armed"
  /\ startup' = [startup EXCEPT !.timer = "fired"]
  /\ last' = [op |-> "timeout", arg |-> None, settled |-> None]
  /\ UNCHANGED <<gw, pg, st, ls, rows, mounted, sub, tasks, act, lastNotif, everSet, updated, nNotif, nActs>>

(* clearTimeout(timeoutId): the timer is no longer pending (cleared, or it  *)
(* had fired already).                                                     *)
ClearTimeout(timer) == "cleared"

StartupErrors == AllErrors

(* Backend requests in flight: one per load, one for an action awaiting a   *)
(* call of its own. A request is issued only within the bound.             *)
InFlight ==
  Cardinality(tasks) + (IF act # None /\ \A t \in tasks : t.src # ActSrc THEN 1 ELSE 0)

RoomForFanOut == InFlight + 3 <= MaxInFlight

(* getInitialSession with setLoading(false) only on the branch that found  *)
(* a user.                                                                 *)
StartupFound_LoadingKept(s, r) ==
  LET s1 == [s EXCEPT !.user = r, !.connectionStatus = "connected"]
  IN IF r = None THEN s1 ELSE [IssueProfileLoad([s1 EXCEPT !.isNewUser = ls]) EXCEPT !.loading = FALSE]

(* getCurrentUser resolved with r (a user id or none). *)
StartupFound(s, r) ==
  LET s1 == [s EXCEPT !.user = r, !.connectionStatus = "connected"]
      s2 == IF r = None THEN s1 ELSE IssueProfileLoad([s1 EXCEPT !.isNewUser = ls])
  IN [s2 EXCEPT !.loading = FALSE]

StartupResolve ==
  /\ startup.pc = "awaitUser"
  /\ \E r \in {None} \cup {Some(u) : u \in StoredUsers} :
       /\ r # None => RoomForFanOut
       /\ st' = IF mounted THEN StartupFound(st, r) ELSE st
       /\ tasks' = IF mounted /\ r # None THEN tasks \cup FanOut(Val(r), 0) ELSE tasks
       /\ last' = [op |-> "startupResolved", arg |-> r, settled |-> None]
  /\ startup' = [pc |-> "done", timer |-> ClearTimeout(startup.timer)]
  /\ History
  /\ UNCHANGED <<gw, pg, ls, rows, mounted, sub, act, lastNotif, updated, nNotif, nActs>>

(* The outer catch of getInitialSession without setProfile(null). *)
StartupFailed_ProfileKept(s, e) ==
  IF e.isError /\ e.name = "AbortError"
  THEN [s EXCEPT !.connectionStatus = "disconnected", !.error = Some(ConnectionTimeoutText),
                 !.loading = FALSE]
  ELSE [HandleSupabaseError(
          [s EXCEPT !.user = None, !.progressStats = None,
                    !.subjectProgress = <<>>, !.hasSubjectGroup = FALSE],
          e, "Initial session")
        EXCEPT !.loading = FALSE]

(* getInitialSession without the finally block: loading is left as it was  *)
(* when the request rejects.                                               *)
StartupFailed_LoadingKept(s, e) ==
  IF e.isError /\ e.name = "AbortError"
  THEN [s EXCEPT !.connectionStatus = "disconnected", !.error = Some(ConnectionTimeoutText)]
  ELSE HandleSupabaseError(
         [s EXCEPT !.user = None, !.profile = None, !.progressStats = None,
                   !.subjectProgress = <<>>, !.hasSubjectGroup = FALSE],
         e, "Initial session")

(* getCurrentUser rejected with e. *)
StartupFailed(s, e) ==
  IF e.isError /\ e.name = "AbortError"
  THEN [s EXCEPT !.connectionStatus = "disconnected", !.error = Some(ConnectionTimeoutText),
                 !.loading = FALSE]
  ELSE [HandleSupabaseError(
          [s EXCEPT !.user = None, !.profile = None, !.progressStats = None,
                    !.subjectProgress = <<>>, !.hasSubjectGroup = FALSE],
          e, "Initial session")
        EXCEPT !.loading = FALSE]

StartupReject ==
  /\ startup.pc = "awaitUser"
  /\ \E e \in StartupErrors :
       /\ st' = Render(StartupFailed(st, e))
       /\ last' = [op |-> "startupRejected", arg |-> e, settled |-> None]
  /\ startup' = [pc |-> "done", timer |-> ClearTimeout(startup.timer)]
  /\ History
  /\ UNCHANGED <<gw, pg, ls, rows, mounted, sub, tasks, act, lastNotif, updated, nNotif, nActs>>

----------------------------------------------------------------------------
(* The session-change listener. *)

Payloads == {None} \cup {Some(x) : x \in Sessions}

UserOf(p) == IF p = None THEN None ELSE Some(Val(p).user)

(* The listener with setIsNewUser(false) on the branch with a session. *)
Notified_FlagDropped(s, p) ==
  LET s1 == [s EXCEPT !.error = None, !.session = p, !.user = UserOf(p)]
      s2 == IF p # None
            THEN IssueProfileLoad([s1 EXCEPT !.connectionStatus = "connected", !.isNewUser = FALSE])
            ELSE [s1 EXCEPT !.profile = None, !.progressStats = None, !.subjectProgress = <<>>,
                            !.isNewUser = FALSE, !.hasSubjectGroup = FALSE]
  IN [s2 EXCEPT !.loading = FALSE]

(* The listener without setError(null). *)
Notified_ErrorKept(s, p) ==
  LET s1 == [s EXCEPT !.session = p, !.user = UserOf(p)]
      s2 == IF p # None
            THEN IssueProfileLoad([s1 EXCEPT !.connectionStatus = "connected", !.isNewUser = ls])
            ELSE [s1 EXCEPT !.profile = None, !.progressStats = None, !.subjectProgress = <<>>,
                            !.isNewUser = FALSE, !.hasSubjectGroup = FALSE]
  IN [s2 EXCEPT !.loading = FALSE]

Notified(s, p) ==
  LET s1 == [s EXCEPT !.error = None, !.session = p, !.user = UserOf(p)]
      s2 == IF p # None
            THEN IssueProfileLoad([s1 EXCEPT !.connectionStatus = "connected", !.isNewUser = ls])
            ELSE [s1 EXCEPT !.profile = None, !.progressStats = None, !.subjectProgress = <<>>,
                            !.isNewUser = FALSE, !.hasSubjectGroup = FALSE]
  IN [s2 EXCEPT !.loading = FALSE]

Notify ==
  /\ mounted
  /\ sub.state \in {"active", "noHandle"}
  /\ nNotif + nActs < MaxEvents
  /\ \E p \in Payloads :
       /\ p # None => RoomForFanOut
       /\ st' = Notified(st, p)
       /\ tasks' = IF p # None THEN tasks \cup FanOut(Val(p).user, nNotif + 1) ELSE tasks
       /\ lastNotif' = [applied |-> TRUE, session |-> p]
       /\ last' = [op |-> "notified", arg |-> p, settled |-> None]
  /\ nNotif' = nNotif + 1
  /\ History
  /\ UNCHANGED <<gw, pg, ls, rows, mounted, sub, startup, act, updated, nActs>>

(* A notification already under way when the cleanup ran: the handler      *)
(* returns at its first line.                                              *)
NotifyUnmounted ==
  /\ sub.state \in {"unsubscribed", "noHandle"}
  /\ ~mounted
  /\ nNotif + nActs < MaxEvents
  /\ \E p \in Payloads : last' = [op |-> "notifiedUnmounted", arg |-> p, settled |-> None]
  /\ nNotif' = nNotif + 1
  /\ UNCHANGED <<gw, pg, st, ls, rows, mounted, sub, startup, tasks, act, lastNotif, everSet, updated, nActs>>

----------------------------------------------------------------------------
(* The load functions, each continued when its backend call settles. *)

ProfileLoaded(s, row) == [s EXCEPT !.profile = Some(row), !.connectionStatus = "connected"]

ProfileLoadFailed(s, e) == [HandleSupabaseError(s, e, "Load user profile") EXCEPT !.profile = None]

LoadProfileOk ==
  \E t \in tasks :
    /\ t.pc = "profile"
    /\ st' = Render(ProfileLoaded(st, rows[t.uid]))
    /\ LoadReturns(t, "load")
    /\ History
    /\ UNCHANGED <<gw, pg, ls, rows, mounted, sub, startup, lastNotif, nNotif, nActs>>

(* loadUserProfile issuing its read again when the read has failed. *)
LoadProfileFail_Reissues ==
  \E t \in tasks :
    /\ t.pc = "profile"
    /\ \E e \in Errors :
         /\ st' = Render(ProfileLoadFailed(st, e))
         /\ last' = [op |-> "profileLoadFailed", arg |-> e, settled |-> None]
    /\ History
    /\ UNCHANGED <<gw, pg, ls, rows, mounted, sub, startup, tasks, act, lastNotif, updated, nNotif, nActs>>

LoadProfileFail ==
  \E t \in tasks :
    /\ t.pc = "profile"
    /\ \E e \in Errors :
         /\ st' = Render(ProfileLoadFailed(st, e))
         /\ LoadReturnsWith(t, "profileLoadFailed", e)
    /\ History
    /\ UNCHANGED <<gw, pg, ls, rows, mounted, sub, startup, lastNotif, nNotif, nActs>>

(* loadUserProgress: the stats read, then the subject-progress read. *)
LoadStatsOk ==
  \E t \in tasks :
    /\ t.pc = "stats"
    /\ st' = Render([st EXCEPT !.progressStats = StatsOf(t.uid)])
    /\ last' = [op |-> "load", arg |-> None, settled |-> None]
    /\ tasks' = (tasks \ {t}) \cup {[t EXCEPT !.pc = "subjects"]}
    /\ act' = IF t.src = ActSrc
              THEN Some([Val(act) EXCEPT !.calls = Append(@, "getSubjectProgress")])
              ELSE act
    /\ UNCHANGED <<gw, pg, ls, rows, mounted, sub, startup, lastNotif, everSet, updated, nNotif, nActs>>

(* loadUserProgress reporting the failure of its read through               *)
(* handleSupabaseError, as loadUserProfile does.                            *)
LoadStatsFail_ReportsError ==
  \E t \in tasks :
    /\ t.pc = "stats"
    /\ st' = Render(HandleSupabaseError(st, ConnErr, "Load user progress"))
    /\ LoadReturns(t, "statsLoadFailed")
    /\ UNCHANGED <<gw, pg, ls, rows, mounted, sub, startup, lastNotif, everSet, nNotif, nActs>>

LoadStatsFail ==
  \E t \in tasks :
    /\ t.pc = "stats"
    /\ LoadReturns(t, "statsLoadFailed")
    /\ UNCHANGED <<gw, pg, st, ls, rows, mounted, sub, startup, lastNotif, everSet, nNotif, nActs>>

LoadSubjectsOk ==
  \E t \in tasks :
    /\ t.pc = "subjects"
    /\ st' = Render([st EXCEPT !.subjectProgress = SubjectsOf(t.uid)])
    /\ LoadReturns(t, "load")
    /\ UNCHANGED <<gw, pg, ls, rows, mounted, sub, startup, lastNotif, everSet, nNotif, nActs>>

LoadSubjectsFail ==
  \E t \in tasks :
    /\ t.pc = "subjects"
    /\ LoadReturns(t, "subjectsLoadFailed")
    /\ UNCHANGED <<gw, pg, st, ls, rows, mounted, sub, startup, lastNotif, everSet, nNotif, nActs>>

(* checkSubjectGroupSelection *)
LoadGroupOk ==
  \E t \in tasks :
    /\ t.pc = "group"
    /\ st' = Render([st EXCEPT !.hasSubjectGroup = HasGroup(GroupOf(t.uid))])
    /\ LoadReturns(t, "load")
    /\ UNCHANGED <<gw, pg, ls, rows, mounted, sub, startup, lastNotif, everSet, nNotif, nActs>>

(* checkSubjectGroupSelection with a catch that only logs. *)
LoadGroupFail_KeepsFlag ==
  \E t \in tasks :
    /\ t.pc = "group"
    /\ LoadReturns(t, "groupLoadFailed")
    /\ UNCHANGED <<gw, pg, st, ls, rows, mounted, sub, startup, lastNotif, everSet, nNotif, nActs>>

LoadGroupFail ==
  \E t \in tasks :
    /\ t.pc = "group"
    /\ st' = Render([st EXCEPT !.hasSubjectGroup = FALSE])
    /\ LoadReturns(t, "groupLoadFailed")
    /\ UNCHANGED <<gw, pg, ls, rows, mounted, sub, startup, lastNotif, everSet, nNotif, nActs>>

Loads ==
  \/ LoadProfileOk \/ LoadProfileFail
  \/ LoadStatsOk \/ LoadStatsFail
  \/ LoadSubjectsOk \/ LoadSubjectsFail
  \/ LoadGroupOk \/ LoadGroupFail

----------------------------------------------------------------------------
(* The actions of the exposed surface. One asynchronous action is in       *)
(* flight at a time; it reads user, profile and isNewUser as they were     *)
(* rendered when it was called.                                            *)

(* MaxActs and MaxEvents bound the calls explored in one run. *)
CanCall ==
  /\ mounted /\ startup.pc # "idle" /\ act = None
  /\ nActs < MaxActs /\ nNotif + nActs < MaxEvents
  /\ InFlight + 1 <= MaxInFlight

Call(kind, pc, uid, call) ==
  [kind |-> kind, pc |-> pc, uid |-> uid, isNew |-> st.isNewUser, payload |-> None,
   calls |-> <<call>>, conn |-> st.connectionStatus, flag |-> ls, before |-> None]

Started(kind) == [op |-> kind, arg |-> None, settled |-> None]

Returned(op) == [op |-> op, arg |-> None, settled |-> Settled(Val(act), "returned")]

Threw(op, e) == [op |-> op, arg |-> e, settled |-> Settled(Val(act), "threw")]

InCall(kind, pc) == act # None /\ Val(act).kind = kind /\ Val(act).pc = pc

CanClick == mounted /\ startup.pc # "idle" /\ nActs < MaxActs /\ nNotif + nActs < MaxEvents

(* SupabaseConnectionAlert: the banner with the Retry and Dismiss buttons   *)
(* is rendered unless connectionStatus is connected or error is empty;      *)
(* Retry is disabled while checking.                                        *)
(* The alert rendered whenever connectionStatus is not connected. *)
BannerShown_WheneverNotConnected == st.connectionStatus # "connected"

BannerShown == ~(st.connectionStatus = "connected" \/ st.error = None)

RetryEnabled == BannerShown /\ st.connectionStatus # "checking"

(* dismissError also marking the connection as restored. *)
dismissError_Reconnects ==
  /\ CanClick
  /\ BannerShown
  /\ st' = [st EXCEPT !.error = None, !.connectionStatus = "connected"]
  /\ last' = [op |-> "dismissError", arg |-> None, settled |-> None]
  /\ nActs' = nActs + 1
  /\ UNCHANGED <<gw, pg, ls, rows, mounted, sub, startup, tasks, act, lastNotif, everSet, updated, nNotif>>

dismissError ==
  /\ CanClick
  /\ BannerShown
  /\ st' = [st EXCEPT !.error = None]
  /\ last' = [op |-> "dismissError", arg |-> None, settled |-> None]
  /\ nActs' = nActs + 1
  /\ UNCHANGED <<gw, pg, ls, rows, mounted, sub, startup, tasks, act, lastNotif, everSet, updated, nNotif>>

(* The profile-completion flow calls markProfileCompleted once its        *)
(* updateProfile call has returned.                                        *)
CompletionFlowCalls == mounted /\ act = None /\ updated

markProfileCompleted ==
  /\ CompletionFlowCalls
  /\ st' = [st EXCEPT !.isNewUser = FALSE]
  /\ ls' = FALSE
  /\ last' = [op |-> "markProfileCompleted", arg |-> None, settled |-> None]
  /\ UNCHANGED <<gw, pg, rows, mounted, sub, startup, tasks, act, lastNotif, everSet, updated, nNotif, nActs>>

(* The four calls with setError(null) ahead of the test of user. *)
CallWithoutUser_ClearsError ==
  /\ CanCall
  /\ st.user = None
  /\ \E kind \in {"updateProfile", "recordStudySession", "retryProfileLoad", "refreshProgress"} :
       last' = [op |-> kind,
                arg |-> IF kind \in {"updateProfile", "recordStudySession"}
                        THEN [name |-> "Error", isError |-> TRUE,
                              message |-> <<"No user logged in">>]
                        ELSE None,
                settled |-> Some([kind |-> kind,
                                  outcome |-> IF kind \in {"updateProfile", "recordStudySession"}
                                              THEN "threw" ELSE "returned",
                                  calls |-> <<>>, uid |-> "", isNew |-> st.isNewUser,
                                  conn |-> st.connectionStatus, flag |-> ls, before |-> None])]
  /\ st' = [st EXCEPT !.error = None]
  /\ nActs' = nActs + 1
  /\ UNCHANGED <<gw, pg, ls, rows, mounted, sub, startup, tasks, act, lastNotif, everSet, updated, nNotif>>

(* updateProfile and recordStudySession throw, retryProfileLoad and         *)
(* refreshProgress return, when no user is rendered; what the two throw is  *)
(* new Error('No user logged in').                                          *)
CallWithoutUser ==
  /\ CanCall
  /\ st.user = None
  /\ \E kind \in {"updateProfile", "recordStudySession", "retryProfileLoad", "refreshProgress"} :
       last' = [op |-> kind,
                arg |-> IF kind \in {"updateProfile", "recordStudySession"}
                        THEN [name |-> "Error", isError |-> TRUE,
                              message |-> <<"No user logged in">>]
                        ELSE None,
                settled |-> Some([kind |-> kind,
                                  outcome |-> IF kind \in {"updateProfile", "recordStudySession"}
                                              THEN "threw" ELSE "returned",
                                  calls |-> <<>>, uid |-> "", isNew |-> st.isNewUser,
                                  conn |-> st.connectionStatus, flag |-> ls, before |-> None])]
  /\ nActs' = nActs + 1
  /\ UNCHANGED <<gw, pg, st, ls, rows, mounted, sub, startup, tasks, act, lastNotif, everSet, updated, nNotif>>

(* signUp *)
SignUpBegins(s) ==
  [s EXCEPT !.loading = TRUE, !.error = None, !.connectionStatus = "checking", !.isNewUser = TRUE]

(* The catch of signUp without setIsNewUser(false). *)
SignUpFailed_FlagKept(s, e) == HandleSupabaseError([s EXCEPT !.loading = FALSE], e, "Sign up")

SignUpFailed(s, e) == HandleSupabaseError([s EXCEPT !.loading = FALSE, !.isNewUser = FALSE], e, "Sign up")

signUp ==
  /\ CanCall
  /\ st' = SignUpBegins(st)
  /\ ls' = TRUE
  /\ act' = Some(Call("signUp", "call", "", "signUp"))
  /\ last' = Started("signUp")
  /\ nActs' = nActs + 1
  /\ UNCHANGED <<gw, pg, rows, mounted, sub, startup, tasks, lastNotif, everSet, updated, nNotif>>

SignUpOk ==
  /\ InCall("signUp", "call")
  /\ st' = Render([st EXCEPT !.connectionStatus = "connected"])
  /\ act' = None
  /\ last' = Returned("signUp")
  /\ UNCHANGED <<gw, pg, ls, rows, mounted, sub, startup, tasks, lastNotif, everSet, updated, nNotif, nActs>>

SignUpFail ==
  /\ InCall("signUp", "call")
  /\ \E e \in ActionErrors :
       /\ st' = Render(SignUpFailed(st, e))
       /\ last' = Threw("signUp", e)
  /\ ls' = FALSE
  /\ act' = None
  /\ UNCHANGED <<gw, pg, rows, mounted, sub, startup, tasks, lastNotif, everSet, updated, nNotif, nActs>>

(* signIn *)
(* signIn without setIsNewUser(false): only the stored flag is removed. *)
SignInBegins_FlagKept(s) ==
  [s EXCEPT !.loading = TRUE, !.error = None, !.connectionStatus = "checking"]

SignInBegins(s) ==
  [s EXCEPT !.loading = TRUE, !.error = None, !.connectionStatus = "checking", !.isNewUser = FALSE]

SignInFailed(s, e) == HandleSupabaseError([s EXCEPT !.loading = FALSE], e, "Sign in")

signIn ==
  /\ CanCall
  /\ st' = SignInBegins(st)
  /\ ls' = FALSE
  /\ act' = Some(Call("signIn", "call", "", "signIn"))
  /\ last' = Started("signIn")
  /\ nActs' = nActs + 1
  /\ UNCHANGED <<gw, pg, rows, mounted, sub, startup, tasks, lastNotif, everSet, updated, nNotif>>

(* signIn setting user itself once the identity provider has answered. *)
SignInOk_SetsUser ==
  /\ InCall("signIn", "call")
  /\ st' = Render([st EXCEPT !.connectionStatus = "connected", !.user = Some("u1")])
  /\ act' = None
  /\ last' = Returned("signIn")
  /\ UNCHANGED <<gw, pg, ls, rows, mounted, sub, startup, tasks, lastNotif, everSet, updated, nNotif, nActs>>

SignInOk ==
  /\ InCall("signIn", "call")
  /\ st' = Render([st EXCEPT !.connectionStatus = "connected"])
  /\ act' = None
  /\ last' = Returned("signIn")
  /\ UNCHANGED <<gw, pg, ls, rows, mounted, sub, startup, tasks, lastNotif, everSet, updated, nNotif, nActs>>

SignInFail ==
  /\ InCall("signIn", "call")
  /\ \E e \in ActionErrors :
       /\ st' = Render(SignInFailed(st, e))
       /\ last' = Threw("signIn", e)
  /\ act' = None
  /\ UNCHANGED <<gw, pg, ls, rows, mounted, sub, startup, tasks, lastNotif, everSet, updated, nNotif, nActs>>

(* signOut *)
SignOutBegins(s) == [s EXCEPT !.loading = TRUE, !.error = None, !.isNewUser = FALSE]

SignedOut(s) ==
  [s EXCEPT !.user = None, !.profile = None, !.progressStats = None, !.subjectProgress = <<>>,
            !.session = None, !.hasSubjectGroup = FALSE, !.connectionStatus = "connected",
            !.loading = FALSE]

SignOutFailed(s, e) == [HandleSupabaseError(s, e, "Sign out") EXCEPT !.loading = FALSE]

signOut ==
  /\ CanCall
  /\ st' = SignOutBegins(st)
  /\ ls' = FALSE
  /\ act' = Some(Call("signOut", "call", "", "signOut"))
  /\ last' = Started("signOut")
  /\ nActs' = nActs + 1
  /\ UNCHANGED <<gw, pg, rows, mounted, sub, startup, tasks, lastNotif, everSet, updated, nNotif>>

SignOutOk ==
  /\ InCall("signOut", "call")
  /\ st' = Render(SignedOut(st))
  /\ act' = None
  /\ last' = Returned("signOut")
  /\ UNCHANGED <<gw, pg, ls, rows, mounted, sub, startup, tasks, lastNotif, everSet, updated, nNotif, nActs>>

SignOutFail ==
  /\ InCall("signOut", "call")
  /\ \E e \in ActionErrors :
       /\ st' = Render(SignOutFailed(st, e))
       /\ last' = Threw("signOut", e)
  /\ act' = None
  /\ UNCHANGED <<gw, pg, ls, rows, mounted, sub, startup, tasks, lastNotif, everSet, updated, nNotif, nActs>>

(* retryConnection *)
RetryBegins(s) == [s EXCEPT !.connectionStatus = "checking", !.error = None]

(* retryConnection without setUser(currentUser). *)
RetryFound_UserKept(s, r) ==
  LET s1 == [s EXCEPT !.connectionStatus = "connected"]
  IN IF r = None THEN s1 ELSE IssueProfileLoad(s1)

RetryFound(s, r) ==
  LET s1 == [s EXCEPT !.connectionStatus = "connected", !.user = r]
  IN IF r = None THEN s1 ELSE IssueProfileLoad(s1)

retryConnection ==
  /\ CanCall
  /\ RetryEnabled
  /\ st' = RetryBegins(st)
  /\ act' = Some(Call("retryConnection", "getUser", "", "getCurrentUser"))
  /\ last' = Started("retryConnection")
  /\ nActs' = nActs + 1
  /\ UNCHANGED <<gw, pg, ls, rows, mounted, sub, startup, tasks, lastNotif, everSet, updated, nNotif>>

RetryResolve ==
  /\ InCall("retryConnection", "getUser")
  /\ \E r \in {None} \cup {Some(u) : u \in StoredUsers} :
       /\ st' = Render(RetryFound(st, r))
       /\ IF r = None
          THEN /\ act' = None
               /\ tasks' = tasks
               /\ last' = [Returned("retryResolved") EXCEPT !.arg = r]
          ELSE /\ act' = Some([Val(act) EXCEPT !.pc = "profile", !.uid = Val(r),
                                               !.calls = Append(@, "getUserProfile")])
               /\ tasks' = tasks \cup {Task("profile", Val(r), ActSrc)}
               /\ last' = [op |-> "retryResolved", arg |-> r, settled |-> None]
  /\ UNCHANGED <<gw, pg, ls, rows, mounted, sub, startup, lastNotif, everSet, updated, nNotif, nActs>>

RetryReject ==
  /\ InCall("retryConnection", "getUser")
  /\ \E e \in ActionErrors :
       /\ st' = Render(HandleSupabaseError(st, e, "Connection retry"))
       /\ last' = [Returned("retryRejected") EXCEPT !.arg = e]
  /\ act' = None
  /\ UNCHANGED <<gw, pg, ls, rows, mounted, sub, startup, tasks, lastNotif, everSet, updated, nNotif, nActs>>

(* retryProfileLoad and refreshProgress, called with a user rendered *)
retryProfileLoad ==
  /\ CanCall
  /\ st.user # None
  /\ st' = IssueProfileLoad(st)
  /\ act' = Some(Call("retryProfileLoad", "profile", Val(st.user), "getUserProfile"))
  /\ tasks' = tasks \cup {Task("profile", Val(st.user), ActSrc)}
  /\ last' = Started("retryProfileLoad")
  /\ nActs' = nActs + 1
  /\ UNCHANGED <<gw, pg, ls, rows, mounted, sub, startup, lastNotif, everSet, updated, nNotif>>

refreshProgress ==
  /\ CanCall
  /\ st.user # None
  /\ act' = Some(Call("refreshProgress", "progress", Val(st.user), "getUserProgress"))
  /\ tasks' = tasks \cup {Task("progress", Val(st.user), ActSrc)}
  /\ last' = Started("refreshProgress")
  /\ nActs' = nActs + 1
  /\ UNCHANGED <<gw, pg, st, ls, rows, mounted, sub, startup, lastNotif, everSet, updated, nNotif>>

(* recordStudySession, called with a user rendered *)
recordStudySession ==
  /\ CanCall
  /\ st.user # None
  /\ act' = Some(Call("recordStudySession", "append", Val(st.user), "recordStudySession"))
  /\ last' = Started("recordStudySession")
  /\ nActs' = nActs + 1
  /\ UNCHANGED <<gw, pg, st, ls, rows, mounted, sub, startup, tasks, lastNotif, everSet, updated, nNotif>>

(* recordStudySession returning after the append, without the refresh. *)
AppendOk_NoRefresh ==
  /\ InCall("recordStudySession", "append")
  /\ act' = None
  /\ last' = Returned("recordStudySession")
  /\ UNCHANGED <<gw, pg, st, ls, rows, mounted, sub, startup, tasks, lastNotif, everSet, updated, nNotif, nActs>>

(* The append succeeded: refreshProgress, with the user rendered at the call. *)
AppendOk ==
  /\ InCall("recordStudySession", "append")
  /\ act' = Some([Val(act) EXCEPT !.pc = "progress", !.calls = Append(@, "getUserProgress")])
  /\ tasks' = tasks \cup {Task("progress", Val(act).uid, ActSrc)}
  /\ last' = [op |-> "recordStudySession", arg |-> None, settled |-> None]
  /\ UNCHANGED <<gw, pg, st, ls, rows, mounted, sub, startup, lastNotif, everSet, updated, nNotif, nActs>>

AppendFail ==
  /\ InCall("recordStudySession", "append")
  /\ \E e \in ActionErrors :
       /\ st' = Render(HandleSupabaseError(st, e, "Record study session"))
       /\ last' = Threw("recordStudySession", e)
  /\ act' = None
  /\ UNCHANGED <<gw, pg, ls, rows, mounted, sub, startup, tasks, lastNotif, everSet, updated, nNotif, nActs>>

(* updateProfile, called with a user rendered *)
ProfileData(profile, updates) ==
  LET prior(f) == IF profile = None THEN ABSENT ELSE Val(profile)[f]
      spread(f) == IF updates[f] # ABSENT THEN updates[f] ELSE prior(f)
      required(f) == IF Truthy(updates[f]) THEN updates[f]
                     ELSE IF Truthy(prior(f)) THEN prior(f) ELSE ""
  IN [id |-> prior("id"), first_name |-> required("first_name"),
      last_name |-> required("last_name"), grade |-> required("grade"),
      board |-> spread("board")]

(* AuthService.updateUserProfile: the row stored for the user and returned. *)
StoredRow(uid, profileData) == [profileData EXCEPT !.id = uid]

updateProfile ==
  /\ CanCall
  /\ st.user # None
  /\ \E updates \in UpdateInputs :
       /\ act' = Some([Call("updateProfile", "upsert", Val(st.user), "updateUserProfile")
                       EXCEPT !.payload = Some(ProfileData(st.profile, updates)),
                              !.before = Some(st.profile)])
       /\ last' = [op |-> "updateProfile", arg |-> Some(updates), settled |-> None]
  /\ st' = [st EXCEPT !.error = None]
  /\ nActs' = nActs + 1
  /\ UNCHANGED <<gw, pg, ls, rows, mounted, sub, startup, tasks, lastNotif, everSet, updated, nNotif>>

UpsertOk ==
  /\ InCall("updateProfile", "upsert")
  /\ LET a == Val(act)
         row == StoredRow(a.uid, Val(a.payload))
     IN /\ rows' = [rows EXCEPT ![a.uid] = row]
        /\ st' = Render([st EXCEPT !.profile = Some(row), !.connectionStatus = "connected"])
        /\ IF a.isNew
           THEN /\ act' = Some([a EXCEPT !.pc = "initProgress",
                                         !.calls = Append(@, "initializeUserProgress")])
                /\ tasks' = tasks
           ELSE /\ act' = Some([a EXCEPT !.pc = "group",
                                         !.calls = Append(@, "getUserSubjectGroup")])
                /\ tasks' = tasks \cup {Task("group", a.uid, ActSrc)}
  /\ last' = [op |-> "updateProfile", arg |-> None, settled |-> None]
  /\ History
  /\ UNCHANGED <<gw, pg, ls, mounted, sub, startup, lastNotif, updated, nNotif, nActs>>

InitProgressOk ==
  /\ InCall("updateProfile", "initProgress")
  /\ act' = Some([Val(act) EXCEPT !.pc = "initSubjects", !.calls = Append(@, "initializeSubjects")])
  /\ last' = [op |-> "updateProfile", arg |-> None, settled |-> None]
  /\ UNCHANGED <<gw, pg, st, ls, rows, mounted, sub, startup, tasks, lastNotif, everSet, updated, nNotif, nActs>>

InitSubjectsOk ==
  /\ InCall("updateProfile", "initSubjects")
  /\ act' = Some([Val(act) EXCEPT !.pc = "progress", !.calls = Append(@, "getUserProgress")])
  /\ tasks' = tasks \cup {Task("progress", Val(act).uid, ActSrc)}
  /\ last' = [op |-> "updateProfile", arg |-> None, settled |-> None]
  /\ UNCHANGED <<gw, pg, st, ls, rows, mounted, sub, startup, lastNotif, everSet, updated, nNotif, nActs>>

(* The catch of updateProfile putting back the profile captured at the call. *)
UpdateProfileFail_ProfileRestored ==
  /\ act # None /\ Val(act).kind = "updateProfile"
  /\ Val(act).pc \in {"upsert", "initProgress", "initSubjects"}
  /\ \E e \in ActionErrors :
       /\ st' = Render([HandleSupabaseError(st, e, "Profile update")
                        EXCEPT !.profile = Val(Val(act).before)])
       /\ last' = Threw("updateProfile", e)
  /\ act' = None
  /\ UNCHANGED <<gw, pg, ls, rows, mounted, sub, startup, tasks, lastNotif, everSet, updated, nNotif, nActs>>

(* The upsert or one of the two initializations rejected. *)
UpdateProfileFail ==
  /\ act # None /\ Val(act).kind = "updateProfile"
  /\ Val(act).pc \in {"upsert", "initProgress", "initSubjects"}
  /\ \E e \in ActionErrors :
       /\ st' = Render(HandleSupabaseError(st, e, "Profile update"))
       /\ last' = Threw("updateProfile", e)
  /\ act' = None
  /\ UNCHANGED <<gw, pg, ls, rows, mounted, sub, startup, tasks, lastNotif, everSet, updated, nNotif, nActs>>

Next ==
  \/ Mount \/ MountListenerThrows
  \/ TimeoutFires \/ StartupResolve \/ StartupReject
  \/ Notify
  \/ Loads
  \/ dismissError \/ markProfileCompleted \/ CallWithoutUser
  \/ signUp \/ SignUpOk \/ SignUpFail
  \/ signIn \/ SignInOk \/ SignInFail
  \/ signOut \/ SignOutOk \/ SignOutFail
  \/ retryConnection \/ RetryResolve \/ RetryReject
  \/ retryProfileLoad \/ refreshProgress
  \/ recordStudySession \/ AppendOk \/ AppendFail
  \/ updateProfile \/ UpsertOk \/ InitProgressOk \/ InitSubjectsOk \/ UpdateProfileFail

Spec == Init /\ [][Next]_vars

(* The provider with its teardown: the cleanup may run at any time after    *)
(* mount, and what was in flight settles afterwards. The calls explored are *)
(* signUp, signIn, signOut and retryConnection.                             *)
TeardownNext ==
  \/ Mount \/ MountWithoutHandle \/ MountListenerThrows \/ Unmount
  \/ TimeoutFires \/ StartupResolve \/ StartupReject
  \/ Notify \/ NotifyUnmounted
  \/ Loads
  \/ signUp \/ SignUpOk \/ SignUpFail
  \/ signIn \/ SignInOk \/ SignInFail
  \/ signOut \/ SignOutOk \/ SignOutFail
  \/ retryConnection \/ RetryResolve \/ RetryReject

TeardownSpec == Init /\ [][TeardownNext]_vars

----------------------------------------------------------------------------
(* The gateway on its own: the mock client is installed and its callers     *)
(* invoke operations on it; the orchestrator is not mounted.                *)

GatewayInit ==
  /\ st = InitState
  /\ ls = FALSE
  /\ rows = InitialRows
  /\ pg = InitialDb
  /\ mounted = FALSE
  /\ sub = NoSubscription
  /\ startup = [pc |-> "idle", timer |-> "unset"]
  /\ tasks = {}
  /\ act = None
  /\ last = [op |-> "init", arg |-> None, settled |-> None]
  /\ lastNotif = [applied |-> FALSE, session |-> None]
  /\ everSet = {}
  /\ updated = FALSE
  /\ gw = Client("mock")
  /\ nNotif = 0
  /\ nActs = 0

Orchestrator == <<st, ls, mounted, sub, rows, startup, tasks, act, last, lastNotif, everSet,
                  updated, nNotif, nActs>>

(* A subscription of the mock client: its 100 ms timer, what its handler    *)
(* has received, and whether unsubscribe() of its handle has been called    *)
(* (late: a notification was received after that call).                     *)
Subscription == [timer |-> "armed", received |-> <<>>, unsubscribed |-> FALSE, late |-> FALSE]

(* A caller invokes op on the mock client. onAuthStateChange also arms the *)
(* 100 ms timer of the synthetic notification and returns a handle.        *)
MockInvoke ==
  /\ gw.client = "mock"
  /\ gw.calls < MaxGatewayCalls
  /\ \E op \in ClientOps :
       gw' = [gw EXCEPT !.op = op, !.result = Some(MockClient(op)), !.calls = @ + 1,
                        !.timers = IF op = <<"auth", "onAuthStateChange">> THEN @ + 1 ELSE @,
                        !.subs = IF op = <<"auth", "onAuthStateChange">>
                                 THEN Append(@, Subscription) ELSE @]
  /\ UNCHANGED <<Orchestrator, pg>>

(* The timer of a subscription fires: callback('SIGNED_OUT', null). *)
MockTimerFires ==
  /\ \E i \in DOMAIN gw.subs :
       /\ gw.subs[i].timer = "armed"
       /\ gw' = [gw EXCEPT !.timers = @ - 1, !.emitted = @ + 1,
                           !.subs[i].timer = "fired",
                           !.subs[i].received = Append(@, [event |-> "SIGNED_OUT", session |-> None]),
                           !.subs[i].late = gw.subs[i].unsubscribed]
  /\ UNCHANGED <<Orchestrator, pg>>

(* unsubscribe() of a handle the mock returned: () => {}. *)
MockUnsubscribe ==
  /\ \E i \in DOMAIN gw.subs :
       /\ ~gw.subs[i].unsubscribed
       /\ gw' = [gw EXCEPT !.subs[i].unsubscribed = TRUE]
  /\ UNCHANGED <<Orchestrator, pg>>

GatewayNext == MockInvoke \/ MockTimerFires \/ MockUnsubscribe

GatewaySpec == GatewayInit /\ [][GatewayNext]_vars

----------------------------------------------------------------------------
(* The connection probe, testSupabaseConnection(client), run once on the    *)
(* real client one second after the module is loaded (development build).   *)

(* What a check of the probe settles with: the awaited call resolves to an  *)
(* object whose error is absent or an error object (message absent or a     *)
(* text, as fragments; code), or the call throws.                           *)
ErrorObject(message, code) == [message |-> message, code |-> code]

CheckResolves(error) == [how |-> "resolves", error |-> error, thrown |-> ""]

CheckThrows(name) == [how |-> "throws", error |-> None, thrown |-> name]

CheckOutcomes ==
  { CheckResolves(None),
    CheckResolves(Some(ErrorObject(Some(<<"TypeError:", "Failed to fetch">>), ""))),
    CheckResolves(Some(ErrorObject(Some(<<"NetworkError", "when attempting to fetch resource">>), ""))),
    CheckResolves(Some(ErrorObject(Some(<<"fetch is not defined">>), ""))),
    CheckResolves(Some(ErrorObject(Some(<<"Connection timeout">>), ""))),
    CheckResolves(Some(ErrorObject(None, ""))),
    CheckResolves(Some(ErrorObject(None, "PGRST116"))),
    CheckResolves(Some(ErrorObject(Some(<<"JSON object requested, multiple (or no) rows returned">>),
                                   "PGRST116"))),
    CheckResolves(Some(ErrorObject(Some(<<"relation", "public.user_profiles", "does not exist">>),
                                   "42P01"))),
    CheckResolves(Some(ErrorObject(Some(<<"Database error", "querying schema">>), ""))),
    CheckResolves(Some(ErrorObject(Some(<<"unexpected_failure">>), "500"))),
    CheckResolves(Some(ErrorObject(Some(<<"Database error", "relation", "is locked">>), ""))),
    CheckResolves(Some(ErrorObject(Some(<<"Invalid API key">>), "401"))),
    CheckThrows("SupabaseConnectionError"),
    CheckThrows("SupabaseTimeoutError") }

(* authError.message.includes(...) and dbError.message.includes(...): a     *)
(* TypeError when the error object has no message.                          *)
MessageIncludesAny(err, fragments) ==
  \E fragment \in fragments : Includes(Val(err.message), fragment)

(* The identity-layer check: "false" (return false), "next" (go on to the   *)
(* data-layer check) or "threw" (control passes to the catch).              *)
AuthCheck(o) ==
  IF o.how = "throws" THEN "threw"
  ELSE IF o.error = None THEN "next"
  ELSE LET authError == Val(o.error)
       IN IF authError.message = None THEN "threw"
          ELSE IF MessageIncludesAny(authError, {"Failed to fetch", "NetworkError",
                                                 "fetch is not defined"})
          THEN "false"
          ELSE "next"

(* The data-layer check with the paused-project branch returning true. *)
DbCheck_FaultTolerated(o) ==
  IF o.how = "throws" THEN "threw"
  ELSE IF o.error = None THEN "true"
  ELSE LET dbError == Val(o.error)
       IN IF dbError.message = None THEN "threw"
          ELSE IF MessageIncludesAny(dbError, {"Failed to fetch", "NetworkError",
                                               "Connection timeout", "fetch is not defined"})
          THEN "false"
          ELSE "true"

(* The data-layer check: "true", "false" or "threw". *)
DbCheck(o) ==
  IF o.how = "throws" THEN "threw"
  ELSE IF o.error = None THEN "true"
  ELSE LET dbError == Val(o.error)
       IN IF dbError.message = None THEN "threw"
          ELSE IF MessageIncludesAny(dbError, {"Failed to fetch", "NetworkError",
                                               "Connection timeout", "fetch is not defined"})
          THEN "false"
          ELSE IF \/ dbError.code \in {"PGRST116", "42P01"}
                  \/ MessageIncludesAny(dbError, {"relation", "does not exist"})
          THEN "true"
          ELSE IF MessageIncludesAny(dbError, {"Database error", "unexpected_failure"})
          THEN "false"
          ELSE "true"

(* The probe without its catch: what is thrown inside reaches the caller. *)
Catch_Rethrows(verdict) == verdict

(* The catch around the whole body of the probe: return false. *)
Catch(verdict) == IF verdict = "threw" THEN "false" ELSE verdict

(* testConnection: a probe that returned false, or threw, switches the      *)
(* client in use to the mock client.                                        *)
ClientAfterProbe(client, result) == IF result = "true" THEN client ELSE "mock"

ProbeInit ==
  /\ st = InitState
  /\ ls = FALSE
  /\ rows = InitialRows
  /\ pg = InitialDb
  /\ mounted = FALSE
  /\ sub = NoSubscription
  /\ startup = [pc |-> "idle", timer |-> "unset"]
  /\ tasks = {}
  /\ act = None
  /\ last = [op |-> "init", arg |-> None, settled |-> None]
  /\ lastNotif = [applied |-> FALSE, session |-> None]
  /\ everSet = {}
  /\ updated = FALSE
  /\ gw = Client("real")
  /\ nNotif = 0
  /\ nActs = 0

(* The timer fires: the probe starts and awaits client.auth.getSession(). *)
ProbeStart ==
  /\ gw.client = "real"
  /\ gw.config.dev
  /\ gw.probe.pc = "idle"
  /\ gw' = [gw EXCEPT !.probe.pc = "auth"]
  /\ UNCHANGED <<Orchestrator, pg>>

(* createMockClient(): sets isUsingMockClient and returns the mock, which   *)
(* the caller assigns to supabase.                                         *)
CreateMockClient(g) == [g EXCEPT !.client = "mock", !.isUsingMockClient = TRUE]

ProbeDone(verdict) ==
  LET result == Catch(verdict)
      g == [gw EXCEPT !.probe.pc = "done", !.probe.result = result]
  IN IF ClientAfterProbe(gw.client, result) = "mock" THEN CreateMockClient(g) ELSE g

(* getSession settles. *)
ProbeAuthSettles ==
  /\ gw.probe.pc = "auth"
  /\ \E o \in CheckOutcomes :
       gw' = IF AuthCheck(o) = "next"
             THEN [gw EXCEPT !.probe.pc = "db", !.probe.auth = Some(o)]
             ELSE [ProbeDone(AuthCheck(o)) EXCEPT !.probe.auth = Some(o)]
  /\ UNCHANGED <<Orchestrator, pg>>

(* The read of user_profiles settles. *)
ProbeDbSettles ==
  /\ gw.probe.pc = "db"
  /\ \E o \in CheckOutcomes :
       gw' = [ProbeDone(DbCheck(o)) EXCEPT !.probe.db = Some(o)]
  /\ UNCHANGED <<Orchestrator, pg>>

ProbeNext == ProbeStart \/ ProbeAuthSettles \/ ProbeDbSettles

ProbeSpec == ProbeInit /\ [][ProbeNext]_vars

----------------------------------------------------------------------------
(* Initialisation of the backend module: which client it exports. *)

(* hasValidConfig without the two placeholder tests. *)
HasValidConfig_PlaceholderAccepted(c) == c.url # <<>> /\ c.key # <<>>

(* hasValidConfig *)
HasValidConfig(c) ==
  /\ c.url # <<>>
  /\ c.key # <<>>
  /\ ~Includes(c.url, "your-project")
  /\ ~Includes(c.key, "your-anon-key")

ModuleInit ==
  /\ st = InitState
  /\ ls = FALSE
  /\ rows = InitialRows
  /\ pg = InitialDb
  /\ mounted = FALSE
  /\ sub = NoSubscription
  /\ startup = [pc |-> "idle", timer |-> "unset"]
  /\ tasks = {}
  /\ act = None
  /\ last = [op |-> "init", arg |-> None, settled |-> None]
  /\ lastNotif = [applied |-> FALSE, session |-> None]
  /\ everSet = {}
  /\ updated = FALSE
  /\ \E c \in Configs : gw = [Client("unset") EXCEPT !.config = c]
  /\ nNotif = 0
  /\ nActs = 0

(* The module body runs: the mock when the configuration is missing or a    *)
(* placeholder, or when createClient throws; the real client otherwise.     *)
ModuleLoads ==
  /\ gw.client = "unset"
  /\ gw' = IF ~HasValidConfig(gw.config) \/ gw.config.createClientThrows
           THEN CreateMockClient(gw)
           ELSE [gw EXCEPT !.client = "real"]
  /\ UNCHANGED <<Orchestrator, pg>>

ModuleNext == ModuleLoads \/ ProbeStart \/ ProbeAuthSettles \/ ProbeDbSettles

ModuleSpec == ModuleInit /\ [][ModuleNext]_vars

----------------------------------------------------------------------------
(* The backend's user_progress_stats table. Rows are kept in insertion      *)
(* order; nothing in the representation makes user_id unique, the UNIQUE    *)
(* constraint is what the insert statements check.                          *)

StatsRows(table, u) == {i \in DOMAIN table : table[i].user_id = u}

(* user_id uuid UNIQUE NOT NULL: an insert for u conflicts with a row of u. *)
UniqueViolation(table, u) == StatsRows(table, u) # {}

(* INSERT INTO user_progress_stats (user_id) VALUES (u)                     *)
(*   ON CONFLICT (user_id) DO NOTHING                                       *)
InsertOnConflictDoNothing(table, u) ==
  IF UniqueViolation(table, u) THEN table ELSE Append(table, ProgressRow(u))

(* ON CONFLICT (user_id) DO UPDATE, every counter back to its default. *)
initialize_user_progress_Resets(table, u) ==
  IF UniqueViolation(table, u)
  THEN [i \in DOMAIN table |-> IF table[i].user_id = u THEN ProgressRow(u) ELSE table[i]]
  ELSE Append(table, ProgressRow(u))

(* The trigger function initialize_user_progress() for NEW.id = u. An error *)
(* of the insert is caught and reported as a warning: the statement that    *)
(* fired the trigger never fails because of it.                             *)
initialize_user_progress(table, u) == InsertOnConflictDoNothing(table, u)

(* ProgressService.initializeUserProgress(u): the insert of a row for u; a  *)
(* duplicate insert is a no-op, and the call resolves.                      *)
InitializeUserProgress(table, u) == InsertOnConflictDoNothing(table, u)

Statement(op, u, existed) == [op |-> op, user |-> u, existed |-> existed, ok |-> TRUE]

ProgressInit ==
  /\ st = InitState
  /\ ls = FALSE
  /\ rows = InitialRows
  /\ pg = [profiles |-> {}, stats |-> <<>>,
           last |-> [op |-> "none", user |-> "u1", existed |-> FALSE, ok |-> TRUE], n |-> 0]
  /\ mounted = FALSE
  /\ sub = NoSubscription
  /\ startup = [pc |-> "idle", timer |-> "unset"]
  /\ tasks = {}
  /\ act = None
  /\ last = [op |-> "init", arg |-> None, settled |-> None]
  /\ lastNotif = [applied |-> FALSE, session |-> None]
  /\ everSet = {}
  /\ updated = FALSE
  /\ gw = Client("real")
  /\ nNotif = 0
  /\ nActs = 0

(* A row for u is inserted into user_profiles (by handle_new_user, or by    *)
(* the client's upsert): initialize_user_progress_trigger fires AFTER       *)
(* INSERT, FOR EACH ROW.                                                    *)
ProfileInserted ==
  /\ pg.n < MaxStatements
  /\ \E u \in Users \ pg.profiles :
       pg' = [profiles |-> pg.profiles \cup {u},
              stats |-> initialize_user_progress(pg.stats, u),
              last |-> Statement("trigger", u, UniqueViolation(pg.stats, u)),
              n |-> pg.n + 1]
  /\ UNCHANGED <<Orchestrator, gw>>

(* updateProfile's await ProgressService.initializeUserProgress(user.id). *)
ProgressInitialized ==
  /\ pg.n < MaxStatements
  /\ \E u \in Users :
       pg' = [pg EXCEPT !.stats = InitializeUserProgress(pg.stats, u),
                        !.last = Statement("initializeUserProgress", u,
                                           UniqueViolation(pg.stats, u)),
                        !.n = @ + 1]
  /\ UNCHANGED <<Orchestrator, gw>>

(* The user updates the counters of their own row (the UPDATE policy: *)
(* auth.uid() = user_id).                                              *)
StatsUpdated ==
  /\ pg.n < MaxStatements
  /\ \E u \in Users : \E i \in StatsRows(pg.stats, u) :
       pg' = [pg EXCEPT !.stats[i].total_study_time_minutes = @ + 30,
                        !.stats[i].completed_lessons = @ + 1,
                        !.last = Statement("update", u, TRUE),
                        !.n = @ + 1]
  /\ UNCHANGED <<Orchestrator, gw>>

ProgressNext == ProfileInserted \/ ProgressInitialized \/ StatsUpdated

ProgressSpec == ProgressInit /\ [][ProgressNext]_vars

----------------------------------------------------------------------------
(* The real client's transport: every request of the client goes through   *)
(* the wrapper handed to createClient as global.fetch. Each call has its    *)
(* own AbortController and its own 10 s timer; the orchestrator passes what *)
(* a call rejects with to handleSupabaseError.                              *)

MaxRequests == 2

Response == [name |-> "Response", isError |-> FALSE, message |-> <<>>]

(* The .catch of the wrapper with the TypeError test left out. *)
FetchCatch_MessageOnly(error) ==
  IF error.name = "AbortError" THEN TimeoutErr
  ELSE IF \/ Includes(error.message, "Failed to fetch")
          \/ Includes(error.message, "NetworkError")
       THEN ConnErr
       ELSE error

(* The .catch of the wrapper: what the returned promise rejects with. *)
FetchCatch(error) ==
  IF error.name = "AbortError" THEN TimeoutErr
  ELSE IF \/ Includes(error.message, "Failed to fetch")
          \/ Includes(error.message, "NetworkError")
          \/ error.name = "TypeError"
       THEN ConnErr
       ELSE error

FetchInit ==
  /\ st = InitState
  /\ ls \in BOOLEAN
  /\ rows = InitialRows
  /\ pg = InitialDb
  /\ mounted = FALSE
  /\ sub = NoSubscription
  /\ startup = [pc |-> "idle", timer |-> "unset"]
  /\ tasks = {}
  /\ act = None
  /\ last = [op |-> "init", arg |-> None, settled |-> None]
  /\ lastNotif = [applied |-> FALSE, session |-> None]
  /\ everSet = {}
  /\ updated = FALSE
  /\ gw = [client |-> "real",
           reqs |-> [i \in 1..MaxRequests |->
                       [pc |-> "idle", timer |-> "unset", aborted |-> FALSE,
                        started |-> FALSE, native |-> Response,
                        result |-> [ok |-> TRUE, value |-> Response]]]]
  /\ nNotif = 0
  /\ nActs = 0

(* The wrapper is called: the timer is armed and the request handed to the  *)
(* platform's fetch with the controller's signal.                           *)
FetchCalled ==
  \E i \in 1..MaxRequests :
    /\ gw.reqs[i].pc = "idle"
    /\ gw' = [gw EXCEPT !.reqs[i] = [@ EXCEPT !.pc = "pending", !.timer = "armed",
                                              !.started = TRUE]]
    /\ UNCHANGED <<Orchestrator, pg>>

(* The wrapper is called where no fetch exists: the call throws after the   *)
(* timer was armed, before .finally and .catch are attached.                *)
FetchThrows ==
  \E i \in 1..MaxRequests :
    /\ gw.reqs[i].pc = "idle"
    /\ gw' = [gw EXCEPT !.reqs[i] = [@ EXCEPT !.pc = "settled", !.timer = "armed",
                                              !.native = NoFetchErr,
                                              !.result = [ok |-> FALSE, value |-> NoFetchErr]]]
    /\ UNCHANGED <<Orchestrator, pg>>

(* 10 s have passed with the timer still armed: controller.abort(). *)
FetchTimerFires ==
  \E i \in 1..MaxRequests :
    /\ gw.reqs[i].timer = "armed"
    /\ gw' = [gw EXCEPT !.reqs[i] = [@ EXCEPT !.timer = "fired", !.aborted = TRUE]]
    /\ UNCHANGED <<Orchestrator, pg>>

(* The platform's fetch settles: with an AbortError once the signal is      *)
(* aborted, otherwise with a response or an error (a TypeError with or      *)
(* without a network marker in its message, or another value). .finally     *)
(* clears the timer, then .catch converts the error.                        *)
FetchSettles ==
  \E i \in 1..MaxRequests :
    /\ gw.reqs[i].pc = "pending"
    /\ \E n \in IF gw.reqs[i].aborted
                 THEN {AbortErr}
                 ELSE {Response, FetchErr, NetErr, InvalidErr, PlainErr,
                       [name |-> "TypeError", isError |-> TRUE,
                        message |-> <<"Load failed">>]} :
         gw' = [gw EXCEPT !.reqs[i] =
                  [@ EXCEPT !.pc = "settled",
                            !.timer = ClearTimeout(@),
                            !.native = n,
                            !.result = IF n = Response
                                       THEN [ok |-> TRUE, value |-> n]
                                       ELSE [ok |-> FALSE, value |-> FetchCatch(n)]]]
    /\ UNCHANGED <<Orchestrator, pg>>

(* The caller's catch hands the rejection to handleSupabaseError. *)
FetchRejectionHandled ==
  \E i \in 1..MaxRequests :
    /\ gw.reqs[i].pc = "settled"
    /\ ~gw.reqs[i].result.ok
    /\ st' = HandleSupabaseError(st, gw.reqs[i].result.value, "Request")
    /\ gw' = [gw EXCEPT !.reqs[i].pc = "handled"]
    /\ UNCHANGED <<ls, mounted, sub, rows, startup, tasks, act, last, lastNotif, everSet,
                   updated, pg, nNotif, nActs>>

FetchNext ==
  FetchCalled \/ FetchThrows \/ FetchTimerFires \/ FetchSettles \/ FetchRejectionHandled

FetchSpec == FetchInit /\ [][FetchNext]_vars

----------------------------------------------------------------------------
(* Properties. *)

(* C1: once a call to signOut has settled (returned or thrown), whatever    *)
(* connectionStatus was, profile is null, progressStats is null,           *)
(* subjectProgress is empty and the new-user flag is cleared in state and   *)
(* in local storage.                                                       *)
C1_SignOutClearsDependentData ==
  (last.settled # None /\ Val(last.settled).kind = "signOut")
    => /\ st.profile = None
       /\ st.progressStats = None
       /\ st.subjectProgress = <<>>
       /\ ~st.isNewUser
       /\ ~ls

(* C2: once the last notification has been applied and the startup check,  *)
(* every load and every action have settled, user and session are those of *)
(* that notification. Stated for a last notification that carried a        *)
(* session, in the runs with no call of the exposed surface, where the      *)
(* startup check is the only other writer of user.                         *)
C2_LastNotificationWins ==
  ( /\ lastNotif.applied /\ lastNotif.session # None
    /\ startup.pc = "done" /\ tasks = {} /\ act = None /\ nActs = 0 )
    => /\ st.session = lastNotif.session
       /\ st.user = UserOf(lastNotif.session)

(* C3: when updateProfile is called, every required field that held a      *)
(* non-empty value in profile at some earlier point of the run is non-empty *)
(* in the payload handed to the upsert.                                    *)
C3_EstablishedFieldsSubmitted ==
  (last.op = "updateProfile" /\ last.settled = None /\ last.arg # None)
    => \A f \in everSet : Truthy(Val(Val(act).payload)[f])

(* C4, as claimed: on the mock client every operation other than signOut   *)
(* and the subscription resolves and carries the canonical unavailable      *)
(* error.                                                                  *)
C4_EveryOperationUnavailable ==
  ( /\ gw.result # None
    /\ gw.op \in MockDefinedOps
    /\ gw.op \notin {<<"auth", "signOut">>, <<"auth", "onAuthStateChange">>} )
    => /\ Val(gw.result).how = "resolves"
       /\ Val(gw.result).error = Some(MockError)

(* C4, amended: no operation the mock client defines throws; the canonical  *)
(* unavailable error is carried exactly by signUp, signInWithPassword,      *)
(* insert, upload and the reads and writes that end in single or            *)
(* maybeSingle; getUser, getSession, signOut, the list reads that end in    *)
(* limit and storage remove resolve with no error and no data, and the      *)
(* subscription and getPublicUrl return plain values.                      *)
C4_MockResults ==
  (gw.result # None /\ gw.op \in MockDefinedOps)
    => LET r == Val(gw.result)
           method == gw.op[Len(gw.op)]
       IN /\ r.how # "throws"
          /\ (r.error = Some(MockError)) <=>
               (method \in {"signUp", "signInWithPassword", "insert", "upload", "single", "maybeSingle"})
          /\ r.error # Some(MockError) =>
               /\ r.error = None
               /\ r.data \in {"user: null", "session: null", "absent", "[]", "subscription",
                              "publicUrl: ''"}
          /\ (r.how = "returns") <=> (method \in {"onAuthStateChange", "getPublicUrl"})

C4_Witness ==
  /\ gw.op = <<"from", "select", "eq", "order", "limit">>
  /\ gw.result = Some(Resolves("[]", None))
  /\ gw.calls = MaxGatewayCalls

(* C5: once the 8 s timer of the startup session check has fired, the check *)
(* has been cancelled: it no longer awaits the request and the state is     *)
(* disconnected with an error, no user and loading false. (A step of the    *)
(* model runs the timer callback and the continuations it wakes.)          *)
C5_TimeoutCancelsSessionCheck ==
  startup.timer = "fired"
    => /\ startup.pc = "done"
       /\ st.connectionStatus = "disconnected"
       /\ st.error # None
       /\ st.user = None
       /\ ~st.loading

(* C6, as claimed: once signUp has succeeded the new-user flag is cleared,  *)
(* in state or in local storage, only after an updateProfile call has       *)
(* returned.                                                               *)
C6_ClearedOnlyAfterUpdateProfile ==
  [][ ( /\ ~InCall("signUp", "call")
        /\ (ls /\ ~ls') \/ (st.isNewUser /\ ~st'.isNewUser) )
      => updated ]_vars

(* C6, amended: signUp sets the flag in state and local storage when it is  *)
(* called; a notification with a valid session sets isNewUser to the flag   *)
(* in local storage; the flag is cleared only by a failed signUp, by        *)
(* markProfileCompleted, signIn and signOut and, in state only, by a        *)
(* notification without a session, so by no load and by no step of          *)
(* updateProfile; and updateProfile, called for a flagged new user, has     *)
(* run progress initialization and then subject initialization, after the   *)
(* upsert, when it returns.                                                *)
C6_NewUserFlag ==
  /\ []((last.op = "signUp" /\ last.settled = None) => (st.isNewUser /\ ls))
  /\ []((last.op = "notified" /\ last.arg # None) => (st.isNewUser = ls))
  /\ [][ (ls /\ ~ls')
           => \/ last'.op \in {"markProfileCompleted", "signIn", "signOut"}
              \/ /\ last'.op = "signUp"
                 /\ last'.settled # None
                 /\ Val(last'.settled).outcome = "threw" ]_vars
  /\ [][ (st.isNewUser /\ ~st'.isNewUser)
           => \/ last'.op \in {"markProfileCompleted", "signIn", "signOut", "signUp"}
              \/ last'.op = "notified" /\ last'.arg = None ]_vars
  /\ []((/\ last.settled # None
         /\ Val(last.settled).kind = "updateProfile"
         /\ Val(last.settled).outcome = "returned"
         /\ Val(last.settled).isNew)
          => SubSeq(Val(last.settled).calls, 1, 3)
               = <<"updateUserProfile", "initializeUserProgress", "initializeSubjects">>)

C6_Witness ==
  /\ last.settled # None
  /\ Val(last.settled).kind = "updateProfile"
  /\ Val(last.settled).outcome = "returned"
  /\ Val(last.settled).isNew
  /\ st.isNewUser /\ ls
  /\ lastNotif.applied /\ lastNotif.session # None

(* C7: recordStudySession with a user performs exactly one append; when the *)
(* append succeeds one progress reload for that user (stats, then subject   *)
(* progress) follows before the call returns; when it fails the failure is  *)
(* stored in error and rethrown, no reload is issued and the append is not  *)
(* attempted again.                                                        *)
C7_RecordStudySession ==
  /\ (act # None /\ Val(act).kind = "recordStudySession")
       => LET a == Val(act)
          IN /\ a.calls[1] = "recordStudySession"
             /\ \A i \in 2..Len(a.calls) : a.calls[i] # "recordStudySession"
             /\ (last.op = "recordStudySession" /\ a.pc = "append")
                  => (st.user = Some(a.uid) /\ a.calls = <<"recordStudySession">>)
             /\ a.pc = "progress"
                  => \E t \in tasks : t.src = ActSrc /\ t.kind = "progress" /\ t.uid = a.uid
  /\ (last.settled # None /\ Val(last.settled).kind = "recordStudySession"
        /\ Val(last.settled).uid # "")
       => LET r == Val(last.settled)
          IN IF r.outcome = "returned"
             THEN r.calls \in {<<"recordStudySession", "getUserProgress">>,
                               <<"recordStudySession", "getUserProgress", "getSubjectProgress">>}
             ELSE r.calls = <<"recordStudySession">> /\ st.error # None

C7_Witness ==
  /\ last.settled # None
  /\ Val(last.settled).kind = "recordStudySession"
  /\ Val(last.settled).outcome = "returned"
  /\ Val(last.settled).calls = <<"recordStudySession", "getUserProgress", "getSubjectProgress">>
  /\ st.progressStats # None

(* C8: when the startup session request resolves, user is the user it       *)
(* returned, connectionStatus is connected and loading is false; with a     *)
(* user the profile, progress and subject-group loads for that user are all *)
(* in flight, each at its first request; with none no load is issued.      *)
C8_StartupSuccess ==
  last.op = "startupResolved"
    => /\ st.user = last.arg
       /\ st.connectionStatus = "connected"
       /\ ~st.loading
       /\ IF last.arg # None
          THEN FanOut(Val(last.arg), 0) \subseteq tasks
          ELSE \A t \in tasks : t.src # 0

C8_Witness ==
  /\ last.op = "startupResolved"
  /\ last.arg = Some("u1")
  /\ st.isNewUser
  /\ Cardinality(tasks) = 3

(* C9: when the startup session request rejects with a network-classified   *)
(* error, the orchestrator is disconnected with an error and user, profile, *)
(* progressStats, subjectProgress and hasSubjectGroup are reset and loading *)
(* is false.                                                               *)
C9_StartupNetworkFailure ==
  ( /\ last.op = "startupRejected"
    /\ \/ last.arg.name \in {"SupabaseConnectionError", "SupabaseTimeoutError"}
       \/ \E fragment \in {"Failed to fetch", "NetworkError", "Connection timeout",
                           "fetch is not defined"} : Includes(last.arg.message, fragment) )
    => /\ st.connectionStatus = "disconnected"
       /\ st.error # None
       /\ st.user = None
       /\ st.profile = None
       /\ st.progressStats = None
       /\ st.subjectProgress = <<>>
       /\ ~st.hasSubjectGroup
       /\ ~st.loading

C9_Witness ==
  /\ last.op = "startupRejected"
  /\ last.arg = NoFetchErr
  /\ everSet # {}
  /\ st.session # None

(* C10: a notification is applied in one step: session and user are its     *)
(* payload, error is cleared and loading is false; with a user,             *)
(* connectionStatus is connected and the three loads for that user are in   *)
(* flight; with none, profile, progressStats, subjectProgress, isNewUser    *)
(* and hasSubjectGroup are reset and no load is issued.                    *)
C10_NotificationApplied ==
  last.op = "notified"
    => LET p == last.arg
       IN /\ st.session = p
          /\ st.user = UserOf(p)
          /\ st.error = None
          /\ ~st.loading
          /\ IF p # None
             THEN /\ st.connectionStatus = "connected"
                  /\ FanOut(Val(p).user, nNotif) \subseteq tasks
             ELSE /\ st.profile = None
                  /\ st.progressStats = None
                  /\ st.subjectProgress = <<>>
                  /\ ~st.isNewUser
                  /\ ~st.hasSubjectGroup
                  /\ \A t \in tasks : t.src # nNotif

C10_Witness ==
  /\ last.op = "notified"
  /\ last.arg = None
  /\ nNotif = 2
  /\ everSet # {}
  /\ st.connectionStatus = "disconnected"

(* C11: signUp and signIn set connectionStatus to checking in the step that *)
(* issues the call to the identity provider, and no step of signUp or       *)
(* signIn, the one that handles the provider's success included, changes    *)
(* user, session, profile, progressStats or subjectProgress: a user appears *)
(* through them only when the session-change notification is applied.       *)
C11_SignUpSignInFrame ==
  [][ last'.op \in {"signUp", "signIn"}
        => /\ st'.user = st.user
           /\ st'.session = st.session
           /\ st'.profile = st.profile
           /\ st'.progressStats = st.progressStats
           /\ st'.subjectProgress = st.subjectProgress
           /\ last'.settled = None
                => /\ act = None
                   /\ st'.connectionStatus = "checking"
                   /\ act' # None
                   /\ Val(act').kind = last'.op
                   /\ Val(act').calls = <<last'.op>>
           /\ last'.settled # None => (act # None /\ Val(act).kind = last'.op) ]_vars

C11_Witness ==
  /\ last.op = "signIn"
  /\ last.settled # None
  /\ Val(last.settled).outcome = "returned"
  /\ st.user = None
  /\ st.session = None
  /\ st.connectionStatus = "connected"
  /\ st.loading

(* C12, as claimed: when signUp or signIn has failed, loading is false, the *)
(* new-user flag has, in state and in local storage, the value it had       *)
(* before the call, error is set, the error was rethrown, and the failure   *)
(* left user and session as they were.                                      *)
C12_FlagsRevertedOnFailure ==
  /\ []((/\ last.op \in {"signUp", "signIn"}
         /\ last.settled # None
         /\ Val(last.settled).outcome = "threw")
          => /\ ~st.loading
             /\ st.error # None
             /\ ls = Val(last.settled).flag
             /\ st.isNewUser = Val(last.settled).isNew)
  /\ [][ (last'.op \in {"signUp", "signIn"} /\ last'.settled # None)
           => (st'.user = st.user /\ st'.session = st.session) ]_vars

(* C12, amended: the step that handles a failure of signUp or signIn sets   *)
(* loading to false, stores the error as handleSupabaseError classifies it  *)
(* (disconnected for a network or backend-fault error, connectionStatus     *)
(* untouched otherwise), rethrows and leaves user and session unchanged;    *)
(* signUp's removes the new-user marker from state and local storage        *)
(* whatever it was before the call; signIn's leaves the marker as it is,    *)
(* cleared by the call and not restored.                                    *)
C12_FailedSignUpSignIn ==
  /\ [][ ( /\ last'.op \in {"signUp", "signIn"}
           /\ last'.settled # None
           /\ Val(last'.settled).outcome = "threw" )
           => LET e == last'.arg
              IN /\ ~st'.loading
                 /\ st'.error # None
                 /\ st'.error = HandleSupabaseError(st, e, IF last'.op = "signUp" THEN "Sign up"
                                                           ELSE "Sign in").error
                 /\ st'.connectionStatus =
                      IF NetworkUnavailable(e) \/ BackendFault(e)
                      THEN "disconnected" ELSE st.connectionStatus
                 /\ st'.user = st.user
                 /\ st'.session = st.session
                 /\ last'.op = "signUp" => (~st'.isNewUser /\ ~ls')
                 /\ last'.op = "signIn" => (st'.isNewUser = st.isNewUser /\ ls' = ls) ]_vars
  /\ [][ (last'.op = "signIn" /\ last'.settled = None) => (~st'.isNewUser /\ ~ls') ]_vars

C12_Witness ==
  /\ last.op = "signIn"
  /\ last.settled # None
  /\ Val(last.settled).outcome = "threw"
  /\ Val(last.settled).flag
  /\ Val(last.settled).isNew
  /\ last.arg = InvalidErr
  /\ st.connectionStatus = "checking"
  /\ st.user # None

(* C13: once a call to signOut has settled, whatever connectionStatus was   *)
(* before, session is null, user is null, hasSubjectGroup is false,         *)
(* connectionStatus is connected and loading is false.                      *)
C13_SignedOutState ==
  (last.settled # None /\ Val(last.settled).kind = "signOut")
    => /\ st.session = None
       /\ st.user = None
       /\ ~st.hasSubjectGroup
       /\ st.connectionStatus = "connected"
       /\ ~st.loading

(* C14, as claimed, for the failures that follow the upsert: once a call to *)
(* updateProfile has failed after its upsert, profile equals its value from *)
(* before the call and error is non-null.                                   *)
C14_ProfileUnchangedOnFailure ==
  ( /\ last.settled # None
    /\ Val(last.settled).kind = "updateProfile"
    /\ Val(last.settled).outcome = "threw"
    /\ Len(Val(last.settled).calls) >= 2 )
    => /\ st.profile = Val(Val(last.settled).before)
       /\ st.error # None

(* C14, amended: the step in which updateProfile fails (its upsert, its     *)
(* progress initialization or its subject initialization rejected) sets     *)
(* error and leaves profile as it is, so a failed upsert leaves the profile *)
(* untouched; the step that handles a successful upsert has already         *)
(* replaced profile with the stored row, and a failure of a later step does *)
(* not undo that; a failing progress reload or subject-group read is        *)
(* swallowed and never makes the call fail.                                 *)
C14_UpdateProfileFailure ==
  /\ [][ ( /\ last'.op = "updateProfile"
           /\ last'.settled # None
           /\ Val(last'.settled).outcome = "threw"
           /\ Val(last'.settled).calls # <<>> )
           => /\ st'.profile = st.profile
              /\ st'.error # None
              /\ Val(act).pc \in {"upsert", "initProgress", "initSubjects"} ]_vars
  /\ [][ ( /\ InCall("updateProfile", "upsert")
           /\ act' # None
           /\ Val(act').pc # "upsert" )
           => st'.profile = Some(StoredRow(Val(act).uid, Val(Val(act).payload))) ]_vars
  /\ [][ ( /\ last'.op \in {"statsLoadFailed", "subjectsLoadFailed", "groupLoadFailed"}
           /\ last'.settled # None )
           => Val(last'.settled).outcome = "returned" ]_vars

C14_Witness ==
  /\ last.settled # None
  /\ Val(last.settled).kind = "updateProfile"
  /\ Val(last.settled).outcome = "threw"
  /\ Val(last.settled).calls = <<"updateUserProfile", "initializeUserProgress", "initializeSubjects">>
  /\ st.profile # Val(Val(last.settled).before)
  /\ st.profile # None
  /\ st.error # None

(* C15, as claimed, for the network-failure outcome: when the session       *)
(* request of retryConnection rejects with a network-classified error the   *)
(* state is the one the startup check produces for that outcome:            *)
(* disconnected with an error, and user, profile, progressStats,            *)
(* subjectProgress and hasSubjectGroup reset.                               *)
C15_RetryIsStartupCheck ==
  (last.op = "retryRejected" /\ NetworkUnavailable(last.arg))
    => \A f \in {"user", "connectionStatus", "profile", "progressStats", "subjectProgress",
                 "hasSubjectGroup"} : st[f] = StartupFailed(st, last.arg)[f]

(* C15, amended: retryConnection sets checking and clears error when        *)
(* called; when its session request resolves it produces, in the compared   *)
(* fields, what the startup check produces for the same answer (user is the *)
(* answer, connected; with a user error is cleared) but issues the profile  *)
(* load alone, the progress and subject-group loads following one after the *)
(* other; when the request rejects it only classifies the error as the      *)
(* startup check does and, unlike it, resets none of user, profile,         *)
(* progressStats, subjectProgress and hasSubjectGroup; and it has no        *)
(* timeout: it is left only by the request resolving or rejecting.          *)
C15_RetryConnection ==
  /\ [][ (last'.op = "retryConnection" /\ last'.settled = None)
           => /\ st'.connectionStatus = "checking"
              /\ st'.error = None
              /\ \A f \in {"user", "profile", "progressStats", "subjectProgress", "hasSubjectGroup"} : st'[f] = st[f] ]_vars
  /\ [][ last'.op = "retryResolved"
           => /\ \A f \in {"user", "connectionStatus", "error", "profile", "progressStats",
                          "subjectProgress", "hasSubjectGroup"} : st'[f] = StartupFound(st, last'.arg)[f]
              /\ st'.user = last'.arg
              /\ st'.connectionStatus = "connected"
              /\ IF last'.arg = None
                 THEN tasks' = tasks /\ act' = None
                 ELSE /\ st'.error = None
                      /\ tasks' = tasks \cup {Task("profile", Val(last'.arg), ActSrc)}
                      /\ Val(act').calls = <<"getCurrentUser", "getUserProfile">> ]_vars
  /\ [][ last'.op = "retryRejected"
           => /\ st' = HandleSupabaseError(st, last'.arg, "Connection retry")
              /\ \A f \in {"user", "profile", "progressStats", "subjectProgress", "hasSubjectGroup"} : st'[f] = st[f]
              /\ st'.connectionStatus = StartupFailed(st, last'.arg).connectionStatus
              /\ (NetworkUnavailable(last'.arg) \/ BackendFault(last'.arg))
                   => st'.error = StartupFailed(st, last'.arg).error ]_vars
  /\ [][ (InCall("retryConnection", "getUser") /\ act' # act)
           => last'.op \in {"retryResolved", "retryRejected"} ]_vars

C15_Witness ==
  /\ last.op = "retryResolved"
  /\ last.arg = Some("u1")
  /\ Val(act).conn = "disconnected"
  /\ st.connectionStatus = "connected"
  /\ st.error = None
  /\ st.user = Some("u1")

(* C16: the connection probe never throws or rejects: whatever its two      *)
(* checks settle with (an error of any shape, one without a message         *)
(* included, or a throw), once it has settled it has resolved to true or to *)
(* false.                                                                   *)
C16_ProbeResolvesToBoolean ==
  /\ gw.probe.pc = "done" => gw.probe.result \in {"true", "false"}
  /\ gw.probe.pc # "done" => gw.probe.result = ""

C16_Witness ==
  /\ gw.probe.pc = "done"
  /\ gw.probe.auth = Some(CheckResolves(None))
  /\ gw.probe.db = Some(CheckResolves(Some(ErrorObject(None, "PGRST116"))))
  /\ gw.probe.result = "false"

(* C17, as claimed, for checks that resolve with well-formed errors: when   *)
(* both checks have resolved and every error carries a message, the probe   *)
(* has returned false only if the identity-layer or the data-layer error is *)
(* network-class (its message tells of a failed fetch or of a connection    *)
(* timeout); a server-side fault does not make it return false.             *)
C17_FalseOnlyOnNetworkFailure ==
  LET WellFormed(c) == c # None /\ Val(c).how = "resolves"
                       /\ (Val(c).error # None => Val(Val(c).error).message # None)
      NetworkClass(c) ==
        /\ Val(c).error # None
        /\ MessageIncludesAny(Val(Val(c).error),
                              {"Failed to fetch", "NetworkError", "Connection timeout",
                               "fetch is not defined"})
  IN ( /\ gw.probe.pc = "done"
       /\ WellFormed(gw.probe.auth)
       /\ WellFormed(gw.probe.db)
       /\ gw.probe.result = "false" )
       => (NetworkClass(gw.probe.auth) \/ NetworkClass(gw.probe.db))

(* C17, amended: the probe returns false exactly when a check throws or     *)
(* resolves with an error object that has no message, when the              *)
(* identity-layer error tells of a failed fetch ('Failed to fetch',          *)
(* 'NetworkError', 'fetch is not defined'), when the data-layer error tells *)
(* of one (the same or 'Connection timeout'), or when the data-layer error, *)
(* not being a missing-schema error (code PGRST116 or 42P01, or 'relation'  *)
(* or 'does not exist' in the message), says 'Database error' or            *)
(* 'unexpected_failure'; in every other case, a missing schema included, it *)
(* returns true. The data layer is asked only if the identity-layer check   *)
(* did not end the probe.                                                   *)
C17_ProbeVerdict ==
  gw.probe.pc = "done"
    => LET Broken(c) == Val(c).how = "throws"
                        \/ (Val(c).error # None /\ Val(Val(c).error).message = None)
           Says(c, fragments) ==
             /\ ~Broken(c)
             /\ Val(c).error # None
             /\ \E i \in DOMAIN Val(Val(Val(c).error).message) :
                  Val(Val(Val(c).error).message)[i] \in fragments
           MissingSchema(c) ==
             /\ ~Broken(c)
             /\ Val(c).error # None
             /\ \/ Val(Val(c).error).code \in {"PGRST116", "42P01"}
                \/ Says(c, {"relation", "does not exist"})
           auth == gw.probe.auth
           db == gw.probe.db
           authEnds == Broken(auth) \/ Says(auth, {"Failed to fetch", "NetworkError",
                                                   "fetch is not defined"})
           dbFails ==
             \/ Broken(db)
             \/ Says(db, {"Failed to fetch", "NetworkError", "Connection timeout",
                          "fetch is not defined"})
             \/ ~MissingSchema(db) /\ Says(db, {"Database error", "unexpected_failure"})
       IN /\ auth # None
          /\ (db = None) <=> authEnds
          /\ (gw.probe.result = "false") <=> (authEnds \/ dbFails)
          /\ (gw.probe.result = "true") <=> ~(authEnds \/ dbFails)

C17_Witness ==
  /\ gw.probe.pc = "done"
  /\ gw.probe.auth = Some(CheckResolves(Some(ErrorObject(Some(<<"Connection timeout">>), ""))))
  /\ gw.probe.db = Some(CheckResolves(Some(ErrorObject(Some(<<"Database error", "querying schema">>), ""))))
  /\ gw.probe.result = "false"
  /\ gw.client = "mock"

(* C18: right after the step that handles an error classified as            *)
(* NetworkUnavailable or BackendFault, raised by the startup check, a       *)
(* profile load, the subscription, retryConnection, signUp, signIn,         *)
(* signOut, updateProfile or recordStudySession, connectionStatus is        *)
(* disconnected and error is a non-empty message: the error's own for the   *)
(* typed connection and timeout errors, the fixed remediation text          *)
(* otherwise.                                                               *)
C18_ConnectivityErrorsEscalate ==
  LET raised ==
        \/ last.op \in {"startupRejected", "profileLoadFailed", "retryRejected",
                        "mountListenerThrew"}
        \/ /\ last.op \in {"signUp", "signIn", "signOut", "updateProfile", "recordStudySession"}
           /\ last.settled # None
           /\ Val(last.settled).outcome = "threw"
           /\ Val(last.settled).calls # <<>>
  IN (raised /\ (NetworkUnavailable(last.arg) \/ BackendFault(last.arg)))
       => /\ st.connectionStatus = "disconnected"
          /\ st.error # None
          /\ Val(st.error) # <<>>
          /\ Val(st.error) =
               IF last.arg.name \in {"SupabaseConnectionError", "SupabaseTimeoutError"}
               THEN last.arg.message
               ELSE IF BackendFault(last.arg) THEN ProjectIssueText ELSE CannotConnectText

C18_Witness ==
  /\ last.op = "updateProfile"
  /\ last.settled # None
  /\ Val(last.settled).outcome = "threw"
  /\ Val(last.settled).calls = <<"updateUserProfile", "initializeUserProgress">>
  /\ Val(last.settled).conn = "connected"
  /\ last.arg = FaultErr
  /\ st.connectionStatus = "disconnected"
  /\ st.error = Some(ProjectIssueText)

(* C19: once an operation has settled with an error that is neither         *)
(* NetworkUnavailable nor BackendFault, connectionStatus has the value it   *)
(* had when the operation was called and error holds the error's own        *)
(* message. Stated for errors that are instances of Error, raised by        *)
(* signUp, signIn, signOut, updateProfile, recordStudySession and           *)
(* retryConnection.                                                         *)
C19_OtherErrorsKeepConnectionStatus ==
  ( /\ \/ /\ last.op \in {"signUp", "signIn", "signOut", "updateProfile", "recordStudySession"}
          /\ last.settled # None
          /\ Val(last.settled).outcome = "threw"
          /\ Val(last.settled).calls # <<>>
       \/ last.op = "retryRejected"
    /\ last.arg.isError
    /\ ~NetworkUnavailable(last.arg)
    /\ ~BackendFault(last.arg) )
    => /\ st.connectionStatus = Val(last.settled).conn
       /\ st.error = Some(last.arg.message)

(* C20, as claimed: in the step that handles the failure of a backend call  *)
(* the orchestrator issues no backend call, neither the failed one again    *)
(* nor any other.                                                           *)
C20_NoCallAfterFailure ==
  [][ ( \/ last'.op \in {"startupRejected", "retryRejected", "profileLoadFailed",
                         "statsLoadFailed", "subjectsLoadFailed", "groupLoadFailed"}
        \/ last'.settled # None /\ Val(last'.settled).outcome = "threw" )
        => /\ tasks' \subseteq tasks
           /\ act' = None \/ act' = act ]_vars

(* C20, amended: a fan-out load is issued only when the startup check       *)
(* resolves or a notification is applied (its second read follows the       *)
(* success of its first); a call of an action is issued only when the       *)
(* action is called or when an earlier call of the same action has settled, *)
(* and no action issues the same call twice; the step that handles a        *)
(* rejected startup check, retry or action call issues nothing; the step    *)
(* that handles a failed load never issues that load again and issues at    *)
(* most the next load of the action that awaited it; and disconnected is    *)
(* left only when a notification with a session is applied, when signUp,    *)
(* signIn or retryConnection is called, or when a backend call succeeds     *)
(* (startup check, retry, profile load, upsert, signUp, signIn, signOut).   *)
C20_NoAutomaticRetry ==
  /\ [][ \A t \in tasks' \ tasks :
           t.src # ActSrc
             => \/ last'.op = "startupResolved" /\ t.src = 0 /\ t = Task(t.kind, t.uid, 0)
                \/ last'.op = "notified" /\ t.src = nNotif' /\ nNotif' = nNotif + 1
                \/ last'.op = "load" /\ t.pc = "subjects" /\ [t EXCEPT !.pc = "stats"] \in tasks ]_vars
  /\ [][ (act' # None /\ act' # act)
           => IF act = None
              THEN /\ last'.op = Val(act').kind
                   /\ last'.settled = None
                   /\ nActs' = nActs + 1
                   /\ Len(Val(act').calls) = 1
              ELSE /\ Val(act').kind = Val(act).kind
                   /\ \E call \in {"getUserProfile", "getUserProgress", "getSubjectProgress",
                                    "getUserSubjectGroup", "initializeUserProgress",
                                    "initializeSubjects"} :
                        /\ Val(act').calls = Append(Val(act).calls, call)
                        /\ \A i \in DOMAIN Val(act).calls : Val(act).calls[i] # call ]_vars
  /\ [][ (tasks' \ tasks # {} /\ \E t \in tasks' \ tasks : t.src = ActSrc)
           => /\ act' # None
              /\ Cardinality(tasks' \ tasks) = 1 ]_vars
  /\ [][ ( \/ last'.op \in {"startupRejected", "retryRejected"}
           \/ last'.settled # None /\ Val(last'.settled).outcome = "threw" )
           => /\ tasks' = tasks
              /\ act' = None \/ act' = act ]_vars
  /\ [][ last'.op \in {"profileLoadFailed", "statsLoadFailed", "subjectsLoadFailed",
                       "groupLoadFailed"}
           => LET pc == CASE last'.op = "profileLoadFailed" -> "profile"
                          [] last'.op = "statsLoadFailed" -> "stats"
                          [] last'.op = "subjectsLoadFailed" -> "subjects"
                          [] OTHER -> "group"
                  inFlight(ts) == {t \in ts : t.pc = pc}
              IN /\ inFlight(tasks') \subseteq inFlight(tasks)
                 /\ inFlight(tasks') # inFlight(tasks)
                 /\ \A t \in tasks' \ tasks : t.src = ActSrc /\ t.pc \in {"stats", "group"} ]_vars
  /\ [][ (st.connectionStatus = "disconnected" /\ st'.connectionStatus # "disconnected")
           => \/ last'.op = "notified" /\ last'.arg # None
              \/ last'.op \in {"signUp", "signIn", "retryConnection"} /\ last'.settled = None
                   /\ act = None /\ st'.connectionStatus = "checking"
              \/ /\ st'.connectionStatus = "connected"
                 /\ \/ last'.op \in {"startupResolved", "retryResolved"}
                    \/ last'.op \in {"signUp", "signIn", "signOut"} /\ last'.settled # None
                         /\ Val(last'.settled).outcome = "returned"
                    \/ last'.op = "load" /\ st'.profile # None
                    \/ last'.op = "updateProfile" /\ InCall("updateProfile", "upsert")
                         /\ st'.profile # None ]_vars

C20_Witness ==
  /\ last.op = "profileLoadFailed"
  /\ NetworkUnavailable(last.arg)
  /\ act # None
  /\ Val(act).kind = "retryProfileLoad"
  /\ Val(act).calls = <<"getUserProfile", "getUserProgress">>
  /\ st.connectionStatus = "disconnected"
  /\ \E t \in tasks : t.src = ActSrc /\ t.pc = "stats"

(* C21: dismissError sets error to null and changes no other field of the   *)
(* state (connectionStatus, user, session, profile, progressStats,          *)
(* subjectProgress, loading, isNewUser, hasSubjectGroup), nor the marker in *)
(* local storage, nor anything in flight: disconnected stays disconnected.  *)
C21_DismissErrorFrame ==
  [][ last'.op = "dismissError"
        => /\ st' = [st EXCEPT !.error = None]
           /\ st'.error = None
           /\ st'.connectionStatus = st.connectionStatus
           /\ UNCHANGED <<ls, rows, tasks, act, startup, sub>> ]_vars

C21_Witness ==
  /\ last.op = "dismissError"
  /\ st.connectionStatus = "disconnected"
  /\ st.error = None
  /\ st.user # None
  /\ st.profile # None

(* C22, as claimed: while the provider is mounted the connection banner is  *)
(* displayed exactly when connectionStatus is not connected.                *)
C22_BannerIffNotConnected ==
  mounted => (BannerShown <=> st.connectionStatus # "connected")

(* C22, amended: the banner is displayed exactly when connectionStatus is   *)
(* not connected and error is set, so it is hidden when connected and also  *)
(* when the error has been dismissed or cleared while disconnected or       *)
(* checking; it is displayed at the moment disconnected is entered; the     *)
(* dismiss button exists only while it is displayed and the retry button    *)
(* can be pressed only while it is displayed and connectionStatus is        *)
(* disconnected.                                                            *)
C22_BannerShown ==
  /\ [](BannerShown <=> (st.connectionStatus # "connected" /\ st.error # None))
  /\ [](RetryEnabled <=> (st.connectionStatus = "disconnected" /\ st.error # None))
  /\ [][ (st.connectionStatus # "disconnected" /\ st'.connectionStatus = "disconnected")
           => BannerShown' ]_vars
  /\ [][ last'.op = "dismissError" => (BannerShown /\ ~BannerShown') ]_vars
  /\ [][ (last'.op = "retryConnection" /\ last'.settled = None)
           => (RetryEnabled /\ ~BannerShown') ]_vars

C22_Witness ==
  /\ mounted
  /\ last.op = "dismissError"
  /\ st.connectionStatus = "disconnected"
  /\ ~BannerShown
  /\ ~RetryEnabled


C24_ProgressAndGroupFailuresAreLocal ==
  /\ [][ (/\ last'.op \in {"statsLoadFailed", "subjectsLoadFailed", "groupLoadFailed"}
          /\ \E t \in tasks \ tasks' : t.src # ActSrc)
           => /\ st'.connectionStatus = st.connectionStatus
              /\ st'.error = st.error
              /\ st'.profile = st.profile
              /\ st'.loading = st.loading
              /\ {t \in tasks' : t.pc = "profile"} = {t \in tasks : t.pc = "profile"} ]_vars
  /\ [][ (/\ last'.op = "load"
          /\ mounted
          /\ \E t \in tasks \ tasks' : t.src # ActSrc /\ t.pc = "profile")
           => \E t \in tasks \ tasks' :
                /\ st'.profile = Some(rows[t.uid])
                /\ st'.connectionStatus = "connected" ]_vars

(* The group load of a fan-out has failed while the profile load of the     *)
(* same fan-out is still in flight, and no error was written.               *)
C24_Witness ==
  /\ last.op = "groupLoadFailed"
  /\ \E t \in tasks : /\ t.pc = "profile"
                      /\ t.src # ActSrc
                      /\ ~\E g \in tasks : g.src = t.src /\ g.pc = "group"
  /\ st.error = None
  /\ st.connectionStatus # "disconnected"


C26_StaleLoadIgnored ==
  [][ (/\ last'.op \in {"load", "profileLoadFailed", "statsLoadFailed", "subjectsLoadFailed",
                        "groupLoadFailed"}
       /\ lastNotif.applied
       /\ st.user = UserOf(lastNotif.session)
       /\ \E t \in tasks \ tasks' : st.user # Some(t.uid))
        => /\ st'.profile = st.profile
           /\ st'.progressStats = st.progressStats
           /\ st'.subjectProgress = st.subjectProgress
           /\ st'.hasSubjectGroup = st.hasSubjectGroup
           /\ st'.connectionStatus = st.connectionStatus
           /\ st'.error = st.error ]_vars


(* C27: in every reachable state user is non-null exactly when session is   *)
(* non-null, and then user is the user of that session.                     *)
C27_UserIffSession ==
  /\ st.user # None <=> st.session # None
  /\ st.session # None => st.user = UserOf(st.session)


(* C28: in every reachable state in which profile is non-null, user is      *)
(* non-null and profile.id is the id of user.                               *)
C28_ProfileBelongsToUser ==
  st.profile # None => (st.user # None /\ Val(st.profile).id = Val(st.user))


(* C29: after mount, loading is false in the state in which the startup     *)
(* session check has settled (resolved or rejected) and in the state in     *)
(* which a session-change notification has been applied, whichever comes    *)
(* first; the later of the two never sets loading back to true; and        *)
(* whenever one of the two settles, loading is eventually false.            *)
C29_LoadingFalseOnceSettled ==
  /\ [](last.op \in {"startupResolved", "startupRejected", "notified"} => ~st.loading)
  /\ [][ (last'.op \in {"startupResolved", "startupRejected", "notified"} /\ ~st.loading)
           => ~st'.loading ]_vars
  /\ (last.op \in {"startupResolved", "startupRejected", "notified"}) ~> ~st.loading

(* The notification was applied first, loading went false, and the startup  *)
(* check settled after it, with a failure, leaving loading false.           *)
C29_Witness ==
  /\ last.op = "startupRejected"
  /\ lastNotif.applied
  /\ ~st.loading
  /\ st.connectionStatus = "disconnected"


(* C30: each subscription made on the mock client's onAuthStateChange       *)
(* delivers to its handler one notification, SIGNED_OUT with no session,    *)
(* and never a second one; and once unsubscribe() of its handle has been    *)
(* called no notification is delivered to the handler.                      *)
C30_OneNotificationNoneAfterUnsubscribe ==
  \A i \in DOMAIN gw.subs :
    /\ Len(gw.subs[i].received) <= 1
    /\ gw.subs[i].timer = "fired" => Len(gw.subs[i].received) = 1
    /\ \A k \in DOMAIN gw.subs[i].received :
         gw.subs[i].received[k] = [event |-> "SIGNED_OUT", session |-> None]
    /\ ~gw.subs[i].late


(* C31: once the module has loaded, the exported client is the mock exactly *)
(* when the URL or the key is empty, the URL contains 'your-project' or the *)
(* key contains 'your-anon-key', createClient threw, or, in development,    *)
(* the probe has ended with anything but true; otherwise it is the real     *)
(* client. The mock is never replaced by the real client, and               *)
(* isUsingMockClient is true exactly when the mock is the exported client.  *)
C31_MockExactlyWhen ==
  /\ [](gw.client # "unset"
          => /\ gw.client \in {"mock", "real"}
             /\ gw.client = "mock"
                  <=> \/ gw.config.url = <<>>
                      \/ gw.config.key = <<>>
                      \/ Includes(gw.config.url, "your-project")
                      \/ Includes(gw.config.key, "your-anon-key")
                      \/ gw.config.createClientThrows
                      \/ gw.config.dev /\ gw.probe.pc = "done" /\ gw.probe.result # "true"
             /\ gw.isUsingMockClient <=> gw.client = "mock")
  /\ [][ gw.client = "mock" => gw'.client = "mock" ]_vars

(* A valid configuration in development whose probe ended false: the mock   *)
(* replaced the real client.                                                *)
C31_Witness ==
  /\ gw.client = "mock"
  /\ gw.isUsingMockClient
  /\ HasValidConfig(gw.config)
  /\ ~gw.config.createClientThrows
  /\ gw.probe.result = "false"


(* C32: an AuthProvider has at most one active session-change subscription  *)
(* at any time. onAuthStateChange is called only by the mount, once; the    *)
(* teardown calls unsubscribe exactly once when a handle was obtained and   *)
(* not at all otherwise; nothing else subscribes or unsubscribes, and no    *)
(* subscription with a handle is still active after the teardown.           *)
C32_OneSubscription ==
  /\ [](/\ sub.subscribed <= 1
        /\ sub.unsubscribed <= sub.subscribed
        /\ ~mounted => sub.state # "active")
  /\ [][ sub'.subscribed # sub.subscribed
           => (last'.op = "mount" /\ sub.subscribed = 0 /\ sub'.subscribed = 1) ]_vars
  /\ [][ sub'.unsubscribed # sub.unsubscribed => last'.op = "unmount" ]_vars
  /\ [][ last'.op = "unmount"
           => sub'.unsubscribed = sub.unsubscribed + (IF sub.state = "active" THEN 1 ELSE 0) ]_vars

(* Torn down after a call of the exposed surface: subscribed once,          *)
(* unsubscribed once.                                                       *)
C32_Witness ==
  /\ ~mounted
  /\ nActs > 0
  /\ sub = [state |-> "unsubscribed", subscribed |-> 1, unsubscribed |-> 1]


(* C33: connectionStatus = checking is transient: in every state after      *)
(* mount with no startup check, no call of the exposed surface and no load  *)
(* in flight, connectionStatus is connected or disconnected.                *)
C33_CheckingIsTransient ==
  (mounted /\ startup.pc = "done" /\ act = None /\ tasks = {})
    => st.connectionStatus \in {"connected", "disconnected"}


(* C34: while connectionStatus is disconnected, error is cleared by          *)
(* dismissError only: no other step takes a disconnected state with an      *)
(* error to a disconnected state without one.                               *)
C34_DisconnectedKeepsError ==
  [][ (/\ st.connectionStatus = "disconnected"
       /\ st.error # None
       /\ st'.connectionStatus = "disconnected"
       /\ st'.error = None)
        => last'.op = "dismissError" ]_vars


(* C35: after every successful signUp or signIn call loading becomes false:  *)
(* once the call has returned and nothing is left that could still act (no  *)
(* request in flight, no startup check pending, no listener registered to   *)
(* receive a notification), loading is false.                               *)
C35_LoadingFalseAfterSuccess ==
  (/\ last.op \in {"signUp", "signIn"}
   /\ last.settled # None
   /\ Val(last.settled).outcome = "returned"
   /\ Val(last.settled).calls # <<>>
   /\ mounted /\ startup.pc = "done" /\ act = None /\ tasks = {}
   /\ sub.state = "none")
    => ~st.loading

(* C36, as claimed: in every state with nothing in flight isNewUser equals  *)
(* the stored flag (localStorage 'isNewUser' === 'true'), and every step    *)
(* that changes one of the two leaves them equal.                           *)
C36_IsNewUserMatchesFlag ==
  /\ []((mounted /\ startup.pc = "done" /\ act = None /\ tasks = {})
          => (st.isNewUser = ls))
  /\ [][ (st.isNewUser # st'.isNewUser \/ ls # ls')
           => (st'.isNewUser = ls') ]_vars

(* C36, amended: isNewUser is true only while the stored flag is set; every *)
(* step that changes the stored flag (signUp, a failed signUp, signIn,       *)
(* signOut, markProfileCompleted) leaves the two equal; the startup check    *)
(* and a notification that find a user set isNewUser to the stored flag;    *)
(* and the one step that changes isNewUser and leaves the two different is  *)
(* a notification without a session, which clears isNewUser and keeps the   *)
(* stored flag.                                                             *)
C36_IsNewUserOnlyWhileFlagged ==
  /\ [](st.isNewUser => ls)
  /\ [][ (ls # ls') => (st'.isNewUser = ls') ]_vars
  /\ []((last.op \in {"startupResolved", "notified"} /\ last.arg # None)
          => (st.isNewUser = ls))
  /\ [][ (st.isNewUser # st'.isNewUser /\ st'.isNewUser # ls')
           => (last'.op = "notified" /\ last'.arg = None /\ ls' /\ ls) ]_vars

C36_Witness ==
  /\ last.op = "notified"
  /\ last.arg = None
  /\ ls /\ ~st.isNewUser
  /\ mounted /\ startup.pc = "done" /\ act = None /\ tasks = {}
  /\ nActs > 0


(* C37: called while user is null, updateProfile and recordStudySession     *)
(* reject with an Error whose message is 'No user logged in', and           *)
(* refreshProgress and retryProfileLoad return; none of the four issues a   *)
(* backend call or a load, and none changes a state field, the stored flag  *)
(* or a row.                                                                *)
C37_NoUserNoEffect ==
  [][ (/\ st.user = None
       /\ nActs' # nActs
       /\ last'.op \in {"updateProfile", "recordStudySession", "retryProfileLoad",
                        "refreshProgress"})
        => /\ st' = st /\ ls' = ls /\ rows' = rows /\ pg' = pg
           /\ tasks' = tasks /\ act' = None
           /\ last'.settled # None
           /\ Val(last'.settled).calls = <<>>
           /\ IF last'.op \in {"updateProfile", "recordStudySession"}
              THEN /\ Val(last'.settled).outcome = "threw"
                   /\ last'.arg.isError
                   /\ last'.arg.message = <<"No user logged in">>
              ELSE Val(last'.settled).outcome = "returned" ]_vars

C37_Witness ==
  /\ last.op = "updateProfile"
  /\ last.settled # None
  /\ Val(last.settled).outcome = "threw"
  /\ Val(last.settled).calls = <<>>
  /\ last.arg.message = <<"No user logged in">>
  /\ st.user = None
  /\ st.error # None
  /\ st.connectionStatus = "disconnected"


C39_ThreeLoadsInSequence ==
  /\ []((act # None /\ Val(act).kind \in {"retryProfileLoad", "retryConnection"})
          => /\ Cardinality({t \in tasks : t.src = ActSrc}) <= 1
             /\ \A t \in {t \in tasks : t.src = ActSrc} :
                  t.kind = Val(act).pc /\ t.uid = Val(act).uid)
  /\ [][ (/\ act # None
          /\ Val(act).kind \in {"retryProfileLoad", "retryConnection"}
          /\ Val(act).pc \in {"profile", "progress"}
          /\ act' # act)
           => /\ act' # None
              /\ \/ /\ Val(act).pc = "progress"
                    /\ Val(act').pc = "progress"
                    /\ last'.op = "load"
                 \/ Val(act').pc = (IF Val(act).pc = "profile" THEN "progress" ELSE "group")
              /\ \E t \in tasks' \ tasks :
                   t.kind = Val(act').pc /\ t.src = ActSrc /\ t.uid = Val(act).uid ]_vars
  /\ []((/\ last.settled # None
         /\ Val(last.settled).kind \in {"retryProfileLoad", "retryConnection"}
         /\ Val(last.settled).uid # "")
          => /\ Val(last.settled).outcome = "returned"
             /\ SelectSeq(Val(last.settled).calls,
                          LAMBDA c : c \notin {"getCurrentUser", "getSubjectProgress"})
                  = <<"getUserProfile", "getUserProgress", "getUserSubjectGroup">>)

C39_Witness ==
  /\ last.settled # None
  /\ Val(last.settled).kind = "retryConnection"
  /\ Val(last.settled).outcome = "returned"
  /\ Val(last.settled).calls
       = <<"getCurrentUser", "getUserProfile", "getUserProgress", "getUserSubjectGroup">>
  /\ st.profile = None
  /\ st.progressStats = None
  /\ st.error # None
  /\ st.connectionStatus = "disconnected"


(* C40: a request of the real client that is still pending when its 10 s    *)
(* timer fires is aborted and rejects with an error named                   *)
(* SupabaseTimeoutError; one that the platform fails with a message holding *)
(* 'Failed to fetch' or 'NetworkError', or with a TypeError, rejects with   *)
(* an error named SupabaseConnectionError; a response is passed on and any  *)
(* other error is rethrown as it is; the timer of a request that has        *)
(* settled is cleared; and handleSupabaseError, given either named error,   *)
(* sets connectionStatus to disconnected and error to that error's message. *)
C40_TransportFailuresAreTyped ==
  /\ [](\A i \in 1..MaxRequests :
          /\ gw.reqs[i].timer = "fired" => gw.reqs[i].aborted
          /\ (gw.reqs[i].started /\ gw.reqs[i].pc \in {"settled", "handled"})
               => /\ gw.reqs[i].timer = "cleared"
                  /\ IF gw.reqs[i].aborted
                     THEN /\ ~gw.reqs[i].result.ok
                          /\ gw.reqs[i].result.value.name = "SupabaseTimeoutError"
                     ELSE IF gw.reqs[i].native.name = "Response"
                     THEN gw.reqs[i].result = [ok |-> TRUE, value |-> gw.reqs[i].native]
                     ELSE IF \/ Includes(gw.reqs[i].native.message, "Failed to fetch")
                             \/ Includes(gw.reqs[i].native.message, "NetworkError")
                             \/ gw.reqs[i].native.name = "TypeError"
                     THEN /\ ~gw.reqs[i].result.ok
                          /\ gw.reqs[i].result.value.name = "SupabaseConnectionError"
                     ELSE gw.reqs[i].result = [ok |-> FALSE, value |-> gw.reqs[i].native])
  /\ [][ \A i \in 1..MaxRequests :
           (/\ gw.reqs[i].pc = "settled"
            /\ gw'.reqs[i].pc = "handled"
            /\ gw.reqs[i].result.value.name
                  \in {"SupabaseTimeoutError", "SupabaseConnectionError"})
             => /\ st'.connectionStatus = "disconnected"
                /\ st'.error = Some(gw.reqs[i].result.value.message) ]_vars

C40_Witness ==
  /\ gw.reqs[1].pc = "handled"
  /\ gw.reqs[1].aborted
  /\ gw.reqs[1].timer = "cleared"
  /\ gw.reqs[1].result.value = TimeoutErr
  /\ gw.reqs[2].pc = "settled"
  /\ gw.reqs[2].native.name = "TypeError"
  /\ gw.reqs[2].native.message = <<"Load failed">>
  /\ gw.reqs[2].result.value = ConnErr
  /\ st.connectionStatus = "disconnected"
  /\ st.error = Some(TimeoutErr.message)

====
